---- MODULE Spec2Model ----
(***************************************************************************)
(* Model of the question-resolution core of src/app.py: the tiered         *)
(* matcher find_best_answer, the per-session ConversationTracker, the      *)
(* ResponseEnhancer and the session registry conversation_memory.          *)
(*                                                                         *)
(* Representation.  A Python str is a sequence of characters, each         *)
(* character a one-character TLA+ string ("a", " ", "\n").  A character    *)
(* outside ASCII is written as a token "U+XXXX".  Python's None is the     *)
(* one-element sequence <<"None">>, which is no text because "None" is no  *)
(* character.  Indices of Python slices are 0-based in the source and are  *)
(* shifted by one where a TLA+ sequence is indexed.                        *)
(***************************************************************************)
EXTENDS Integers, Sequences, FiniteSets, TLC

None == <<"None">>

\* Python truthiness of an Optional[str] / list: None and the empty value are falsy.
Truthy(x) == x # None /\ x # <<>>

-----------------------------------------------------------------------------
(* str methods used by the source *)

UpperToLower ==
    [c \in {"A","B","C","D","E","F","G","H","I","J","K","L","M",
            "N","O","P","Q","R","S","T","U","V","W","X","Y","Z"} |->
       CASE c = "A" -> "a" [] c = "B" -> "b" [] c = "C" -> "c" [] c = "D" -> "d"
         [] c = "E" -> "e" [] c = "F" -> "f" [] c = "G" -> "g" [] c = "H" -> "h"
         [] c = "I" -> "i" [] c = "J" -> "j" [] c = "K" -> "k" [] c = "L" -> "l"
         [] c = "M" -> "m" [] c = "N" -> "n" [] c = "O" -> "o" [] c = "P" -> "p"
         [] c = "Q" -> "q" [] c = "R" -> "r" [] c = "S" -> "s" [] c = "T" -> "t"
         [] c = "U" -> "u" [] c = "V" -> "v" [] c = "W" -> "w" [] c = "X" -> "x"
         [] c = "Y" -> "y" [] c = "Z" -> "z"]

\* str.lower()
Lower(s) == [i \in 1..Len(s) |-> IF s[i] \in DOMAIN UpperToLower THEN UpperToLower[s[i]] ELSE s[i]]

Whitespace == {" ", "\n", "\t", "\r"}

\* str.strip()
Strip(s) ==
    LET keep == {i \in 1..Len(s) : s[i] \notin Whitespace}
    IN  IF keep = {} THEN <<>>
        ELSE LET lo == CHOOSE i \in keep : \A j \in keep : i <= j
                 hi == CHOOSE i \in keep : \A j \in keep : i >= j
             IN  SubSeq(s, lo, hi)

\* sub in s
Contains(s, sub) ==
    \E i \in 0..(Len(s) - Len(sub)) : SubSeq(s, i + 1, i + Len(sub)) = sub

\* any(kw in s for kw in kws)
ContainsAny(s, kws) == \E n \in 1..Len(kws) : Contains(s, kws[n])

\* s[:n]
Prefix(s, n) == SubSeq(s, 1, IF Len(s) < n THEN Len(s) ELSE n)

SetMin(S) == CHOOSE m \in S : \A n \in S : m <= n

\* s[p:] for a 0-based offset p
From(s, p) == SubSeq(s, p + 1, Len(s))

\* s.replace(old, new), old non-empty: the leftmost occurrence, then the rest of the text
RECURSIVE Replace(_, _, _)
Replace(s, old, new) ==
    LET at(i) == SubSeq(s, 1, i) \o new \o Replace(From(s, i + Len(old)), old, new)
        leftmost(occ) == IF occ = {} THEN s ELSE at(SetMin(occ))
    IN  leftmost({i \in 0..(Len(s) - Len(old)) : SubSeq(s, i + 1, i + Len(old)) = old})

-----------------------------------------------------------------------------
(* difflib.SequenceMatcher(None, a, b).ratio().  The autojunk heuristic    *)
(* only applies when len(b) >= 200; every variant of the static table is   *)
(* shorter, so no element of b is junk.                                    *)

\* length of the common run of a[i:ahi] and b[j:bhi] (0-based i, j)
RECURSIVE CommonRun(_, _, _, _, _, _)
CommonRun(a, b, i, j, ahi, bhi) ==
    IF i < ahi /\ j < bhi /\ a[i + 1] = b[j + 1]
    THEN 1 + CommonRun(a, b, i + 1, j + 1, ahi, bhi)
    ELSE 0

\* SequenceMatcher.find_longest_match: the longest block, of those the one
\* starting earliest in a, of those the one starting earliest in b;
\* <<alo, blo, 0>> when nothing matches.
find_longest_match(a, b, alo, ahi, blo, bhi) ==
    LET len(p) == CommonRun(a, b, p[1], p[2], ahi, bhi)
        before(p, lp, r, lr) ==
            \/ lp > lr
            \/ lp = lr /\ p[1] < r[1]
            \/ lp = lr /\ p[1] = r[1] /\ p[2] <= r[2]
        block(best) == <<best[1], best[2], len(best)>>
        longest(cand) ==
            IF cand = {} THEN <<alo, blo, 0>>
            ELSE block(CHOOSE p \in cand : \A r \in cand : before(p, len(p), r, len(r)))
    IN  longest({<<i, j>> \in (alo..(ahi - 1)) \X (blo..(bhi - 1)) : a[i + 1] = b[j + 1]})

\* SequenceMatcher.get_matching_blocks, summed: sum of the sizes of the blocks
RECURSIVE matches(_, _, _, _, _, _)
matches(a, b, alo, ahi, blo, bhi) ==
    LET around(i, j, k) ==
            IF k = 0 THEN 0
            ELSE k + (IF alo < i /\ blo < j THEN matches(a, b, alo, i, blo, j) ELSE 0)
                   + (IF i + k < ahi /\ j + k < bhi THEN matches(a, b, i + k, ahi, j + k, bhi) ELSE 0)
        block(m) == around(m[1], m[2], m[3])
    IN  block(find_longest_match(a, b, alo, ahi, blo, bhi))

\* ratio as matches/length, without the factor 2
ratio_undoubled(a, b) ==
    LET length == Len(a) + Len(b)
    IN  IF length = 0 THEN <<1, 1>>
        ELSE <<matches(a, b, 0, Len(a), 0, Len(b)), length>>

\* SequenceMatcher.ratio(): 2.0*matches/length as the fraction <<num, den>>,
\* 1.0 when both sequences are empty.
ratio(a, b) ==
    LET length == Len(a) + Len(b)
    IN  IF length = 0 THEN <<1, 1>>
        ELSE <<2 * matches(a, b, 0, Len(a), 0, Len(b)), length>>

\* comparisons of fractions with positive denominators
FracGT(x, y) == x[1] * y[2] > y[1] * x[2]

-----------------------------------------------------------------------------
(* Static answer table: six entries of STATIC_QA_LIST, in table order.     *)

\* STATIC_QA_LIST[0]
QA_admissions ==
    [key |->
        <<"a","d","m","i","s","s","i","o","n","s">>,
     language |-> <<"e","n">>,
     answer |->
        <<"C","h","e","l","t","e","n","h","a","m"," ","C","o","l","l","e","g","e"," ","a","d","m",
          "i","s","s","i","o","n","s"," ","i","n","f","o","r","m","a","t","i","o","n",","," ","e",
          "n","t","r","y"," ","p","r","o","c","e","s","s"," ","a","n","d"," ","w","h","o"," ","t",
          "o"," ","c","o","n","t","a","c","t",".">>,
     url |->
        <<"h","t","t","p","s",":","/","/","w","w","w",".","c","h","e","l","t","e","n","h","a","m",
          "c","o","l","l","e","g","e",".","o","r","g","/","a","d","m","i","s","s","i","o","n","s",
          "/">>,
     label |->
        <<"A","d","m","i","s","s","i","o","n","s">>,
     variants |-> <<
        <<"a","d","m","i","s","s","i","o","n","s">>,
        <<"a","p","p","l","y">>,
        <<"j","o","i","n">>,
        <<"a","p","p","l","i","c","a","t","i","o","n">>,
        <<"r","e","g","i","s","t","r","a","t","i","o","n">>,
        <<"h","o","w"," ","t","o"," ","a","p","p","l","y">>,
        <<"e","n","t","r","y"," ","p","r","o","c","e","s","s">>>>]

\* STATIC_QA_LIST[2]
QA_open_events ==
    [key |->
        <<"o","p","e","n"," ","e","v","e","n","t","s">>,
     language |-> <<"e","n">>,
     answer |->
        <<"W","e"," ","h","o","s","t"," ","o","p","e","n"," ","m","o","r","n","i","n","g","s"," ",
          "a","n","d"," ","v","i","s","i","t"," ","o","p","p","o","r","t","u","n","i","t","i","e",
          "s"," ","t","h","r","o","u","g","h","o","u","t"," ","t","h","e"," ","y","e","a","r",".",
          " ","C","h","o","o","s","e"," ","a"," ","d","a","t","e"," ","a","n","d"," ","r","e","g",
          "i","s","t","e","r"," ","o","n","l","i","n","e",".">>,
     url |->
        <<"h","t","t","p","s",":","/","/","w","w","w",".","c","h","e","l","t","e","n","h","a","m",
          "c","o","l","l","e","g","e",".","o","r","g","/","a","d","m","i","s","s","i","o","n","s",
          "/","v","i","s","i","t","-","u","s","/">>,
     label |->
        <<"O","p","e","n"," ","e","v","e","n","t","s">>,
     variants |-> <<
        <<"o","p","e","n"," ","m","o","r","n","i","n","g">>,
        <<"o","p","e","n"," ","d","a","y">>,
        <<"v","i","s","i","t">>,
        <<"t","o","u","r">>,
        <<"o","p","e","n"," ","e","v","e","n","i","n","g">>>>]

\* STATIC_QA_LIST[58]
QA_eal_policy_c ==
    [key |->
        <<"p","o","l","i","c","y",":",":","e","a","l"," ","p","o","l","i","c","y"," ","c">>,
     language |-> <<"e","n">>,
     answer |->
        <<"R","e","a","d"," ","t","h","e"," ","E","a","l"," ","P","o","l","i","c","y"," ","C",".">>,
     url |->
        <<"h","t","t","p","s",":","/","/","c","h","e","l","t","e","n","h","a","m","-","c","o","l",
          "l","e","g","e",".","s","3",".","e","u","-","w","e","s","t","-","2",".","a","m","a","z",
          "o","n","a","w","s",".","c","o","m","/","w","p","-","c","o","n","t","e","n","t","/","u",
          "p","l","o","a","d","s","/","2","0","2","5","/","0","6","/","0","9","0","9","0","2","0",
          "7","/","E","A","L","-","P","o","l","i","c","y","-","C",".","p","d","f">>,
     label |->
        <<"E","a","l"," ","P","o","l","i","c","y"," ","C">>,
     variants |-> <<
        <<"p","o","l","i","c","y"," ","e","a","l"," ","c">>,
        <<"e","a","l"," ","c">>,
        <<"e","a","l"," "," ","c">>,
        <<"e","a","l"," ","p","o","l","i","c","y"," ","c">>>>]

\* STATIC_QA_LIST[59]
QA_eal_policy_p ==
    [key |->
        <<"p","o","l","i","c","y",":",":","e","a","l"," ","p","o","l","i","c","y"," ","p">>,
     language |-> <<"e","n">>,
     answer |->
        <<"R","e","a","d"," ","t","h","e"," ","E","a","l"," ","P","o","l","i","c","y"," ","P",".">>,
     url |->
        <<"h","t","t","p","s",":","/","/","c","h","e","l","t","e","n","h","a","m","-","c","o","l",
          "l","e","g","e",".","s","3",".","e","u","-","w","e","s","t","-","2",".","a","m","a","z",
          "o","n","a","w","s",".","c","o","m","/","w","p","-","c","o","n","t","e","n","t","/","u",
          "p","l","o","a","d","s","/","2","0","2","5","/","0","6","/","1","0","0","8","0","2","2",
          "7","/","E","A","L","-","P","o","l","i","c","y","-","P",".","p","d","f">>,
     label |->
        <<"E","a","l"," ","P","o","l","i","c","y"," ","P">>,
     variants |-> <<
        <<"e","a","l"," "," ","p">>,
        <<"p","o","l","i","c","y"," ","e","a","l"," ","p">>,
        <<"e","a","l"," ","p","o","l","i","c","y"," ","p">>,
        <<"e","a","l"," ","p">>>>]

\* STATIC_QA_LIST[78]
QA_job_description ==
    [key |->
        <<"p","o","l","i","c","y",":",":","j","o","b"," ","d","e","s","c","r","i","p","t","i","o",
          "n">>,
     language |-> <<"e","n">>,
     answer |->
        <<"R","e","a","d"," ","t","h","e"," ","J","o","b"," ","D","e","s","c","r","i","p","t","i",
          "o","n",".">>,
     url |->
        <<"h","t","t","p","s",":","/","/","c","h","e","l","t","e","n","h","a","m","-","c","o","l",
          "l","e","g","e",".","s","3",".","e","u","-","w","e","s","t","-","2",".","a","m","a","z",
          "o","n","a","w","s",".","c","o","m","/","w","p","-","c","o","n","t","e","n","t","/","u",
          "p","l","o","a","d","s","/","2","0","2","5","/","0","9","/","1","1","1","0","4","8","0",
          "2","/","J","o","b","-","D","e","s","c","r","i","p","t","i","o","n",".","p","d","f">>,
     label |->
        <<"J","o","b"," ","D","e","s","c","r","i","p","t","i","o","n">>,
     variants |-> <<
        <<"j","o","b"," ","d","e","s","c","r","i","p","t","i","o","n">>,
        <<"p","o","l","i","c","y"," ","j","o","b"," ","d","e","s","c","r","i","p","t","i","o","n">>>>]

\* STATIC_QA_LIST[79]
QA_job_description_1 ==
    [key |->
        <<"p","o","l","i","c","y",":",":","j","o","b"," ","d","e","s","c","r","i","p","t","i","o",
          "n"," ","1">>,
     language |-> <<"e","n">>,
     answer |->
        <<"R","e","a","d"," ","t","h","e"," ","J","o","b"," ","D","e","s","c","r","i","p","t","i",
          "o","n"," ","1",".">>,
     url |->
        <<"h","t","t","p","s",":","/","/","c","h","e","l","t","e","n","h","a","m","-","c","o","l",
          "l","e","g","e",".","s","3",".","e","u","-","w","e","s","t","-","2",".","a","m","a","z",
          "o","n","a","w","s",".","c","o","m","/","w","p","-","c","o","n","t","e","n","t","/","u",
          "p","l","o","a","d","s","/","2","0","2","5","/","0","9","/","1","1","1","1","1","1","2",
          "8","/","J","o","b","-","D","e","s","c","r","i","p","t","i","o","n","-","1",".","p","d",
          "f">>,
     label |->
        <<"J","o","b"," ","D","e","s","c","r","i","p","t","i","o","n"," ","1">>,
     variants |-> <<
        <<"j","o","b"," ","d","e","s","c","r","i","p","t","i","o","n">>,
        <<"j","o","b"," ","d","e","s","c","r","i","p","t","i","o","n"," ","1">>,
        <<"p","o","l","i","c","y"," ","j","o","b"," ","d","e","s","c","r","i","p","t","i","o","n">>>>]

STATIC_QAS == <<QA_admissions, QA_open_events, QA_eal_policy_c, QA_eal_policy_p, QA_job_description, QA_job_description_1>>


-----------------------------------------------------------------------------
(* ConversationTracker.  Timestamps (started_at, interaction timestamp)    *)
(* and the never-written profile attributes are not modelled.  The         *)
(* attribute language exists only after create_realtime_session set it;    *)
(* None stands for its absence.                                            *)

\* add_interaction: high_intent_keywords
high_intent_keywords ==
    <<<<"a","p","p","l","y">>,
      <<"v","i","s","i","t">>,
      <<"f","e","e">>,
      <<"s","c","h","o","l","a","r","s","h","i","p">>,
      <<"w","h","e","n"," ","c","a","n">>,
      <<"h","o","w"," ","d","o"," ","I">>,
      <<"r","e","g","i","s","t","e","r">>>>

\* add_interaction: concern_keywords
concern_keywords ==
    <<<<"w","o","r","r","i","e","d">>,
      <<"c","o","n","c","e","r","n">>,
      <<"a","n","x","i","e","t","y">>,
      <<"d","i","f","f","i","c","u","l","t">>,
      <<"s","t","r","u","g","g","l","e">>,
      <<"h","e","l","p">>,
      <<"s","u","p","p","o","r","t">>,
      <<"n","e","r","v","o","u","s">>>>

\* answer[:200]
ExcerptLen == 200

\* ConversationTracker.__init__
ConversationTracker(session_id, family_id) ==
    [session_id          |-> session_id,
     family_id           |-> family_id,
     interactions        |-> <<>>,
     topics_discussed    |-> {},
     concerns            |-> <<>>,
     high_intent_signals |-> 0,
     last_topic          |-> None,
     emotional_state     |-> "neutral",
     language            |-> None]

\* add_interaction storing the whole answer
add_interaction_whole_answer(self, question, answer, topic) ==
    LET q_lower   == Lower(question)
        high      == ContainsAny(q_lower, high_intent_keywords)
        concerned == ContainsAny(q_lower, concern_keywords)
    IN  [self EXCEPT
           !.interactions        = Append(@, [question |-> question,
                                              answer   |-> answer,
                                              topic    |-> topic]),
           !.topics_discussed    = IF Truthy(topic) THEN @ \cup {topic} ELSE @,
           !.last_topic          = IF Truthy(topic) THEN topic ELSE @,
           !.high_intent_signals = IF high THEN @ + 1 ELSE @,
           !.concerns            = IF concerned THEN Append(@, question) ELSE @,
           !.emotional_state     = IF concerned THEN "concerned" ELSE @]

\* add_interaction noting a concern only while the state is not yet concerned
add_interaction_first_concern(self, question, answer, topic) ==
    LET q_lower   == Lower(question)
        high      == ContainsAny(q_lower, high_intent_keywords)
        concerned == ContainsAny(q_lower, concern_keywords)
    IN  [self EXCEPT
           !.interactions        = Append(@, [question |-> question,
                                              answer   |-> Prefix(answer, ExcerptLen),
                                              topic    |-> topic]),
           !.topics_discussed    = IF Truthy(topic) THEN @ \cup {topic} ELSE @,
           !.last_topic          = IF Truthy(topic) THEN topic ELSE @,
           !.high_intent_signals = IF high THEN @ + 1 ELSE @,
           !.concerns            = IF concerned /\ self.emotional_state # "concerned"
                                   THEN Append(@, question) ELSE @,
           !.emotional_state     = IF concerned THEN "concerned" ELSE @]

\* add_interaction setting emotional_state from the question alone
add_interaction_mood_of_question(self, question, answer, topic) ==
    LET q_lower   == Lower(question)
        high      == ContainsAny(q_lower, high_intent_keywords)
        concerned == ContainsAny(q_lower, concern_keywords)
    IN  [self EXCEPT
           !.interactions        = Append(@, [question |-> question,
                                              answer   |-> Prefix(answer, ExcerptLen),
                                              topic    |-> topic]),
           !.topics_discussed    = IF Truthy(topic) THEN @ \cup {topic} ELSE @,
           !.last_topic          = IF Truthy(topic) THEN topic ELSE @,
           !.high_intent_signals = IF high THEN @ + 1 ELSE @,
           !.concerns            = IF concerned THEN Append(@, question) ELSE @,
           !.emotional_state     = IF concerned THEN "concerned" ELSE "neutral"]

\* add_interaction that sets last_topic without adding the topic to topics_discussed
add_interaction_topic_unlisted(self, question, answer, topic) ==
    LET q_lower   == Lower(question)
        high      == ContainsAny(q_lower, high_intent_keywords)
        concerned == ContainsAny(q_lower, concern_keywords)
    IN  [self EXCEPT
           !.interactions        = Append(@, [question |-> question,
                                              answer   |-> Prefix(answer, ExcerptLen),
                                              topic    |-> topic]),
           !.last_topic          = IF Truthy(topic) THEN topic ELSE @,
           !.high_intent_signals = IF high THEN @ + 1 ELSE @,
           !.concerns            = IF concerned THEN Append(@, question) ELSE @,
           !.emotional_state     = IF concerned THEN "concerned" ELSE @]

\* add_interaction counting every high-intent keyword of the question
add_interaction_counts_keywords(self, question, answer, topic) ==
    LET q_lower   == Lower(question)
        high      == Cardinality({n \in 1..Len(high_intent_keywords) :
                                     Contains(q_lower, high_intent_keywords[n])})
        concerned == ContainsAny(q_lower, concern_keywords)
    IN  [self EXCEPT
           !.interactions        = Append(@, [question |-> question,
                                              answer   |-> Prefix(answer, ExcerptLen),
                                              topic    |-> topic]),
           !.topics_discussed    = IF Truthy(topic) THEN @ \cup {topic} ELSE @,
           !.last_topic          = IF Truthy(topic) THEN topic ELSE @,
           !.high_intent_signals = @ + high,
           !.concerns            = IF concerned THEN Append(@, question) ELSE @,
           !.emotional_state     = IF concerned THEN "concerned" ELSE @]

\* ConversationTracker.add_interaction
add_interaction(self, question, answer, topic) ==
    LET q_lower   == Lower(question)
        high      == ContainsAny(q_lower, high_intent_keywords)
        concerned == ContainsAny(q_lower, concern_keywords)
    IN  [self EXCEPT
           !.interactions        = Append(@, [question |-> question,
                                              answer   |-> Prefix(answer, ExcerptLen),
                                              topic    |-> topic]),
           !.topics_discussed    = IF Truthy(topic) THEN @ \cup {topic} ELSE @,
           !.last_topic          = IF Truthy(topic) THEN topic ELSE @,
           !.high_intent_signals = IF high THEN @ + 1 ELSE @,
           !.concerns            = IF concerned THEN Append(@, question) ELSE @,
           !.emotional_state     = IF concerned THEN "concerned" ELSE @]

\* ConversationTracker.get_conversation_summary (session_duration left out)
get_conversation_summary(self) ==
    [interaction_count |-> Len(self.interactions),
     topics            |-> self.topics_discussed,
     high_intent       |-> self.high_intent_signals >= 2,
     emotional_state   |-> self.emotional_state,
     concerns          |-> Prefix(self.concerns, 3),
     last_topic        |-> self.last_topic]

\* should_offer_human_handoff only after more than ten interactions
should_offer_human_handoff_over_ten(self) ==
    \/ self.high_intent_signals >= 3
    \/ Len(self.concerns) >= 2
    \/ Len(self.interactions) > 10
    \/ self.emotional_state = "concerned"

\* should_offer_human_handoff at the thresholds only
should_offer_human_handoff_at_marks(self) ==
    \/ self.high_intent_signals = 3
    \/ Len(self.concerns) = 2
    \/ Len(self.interactions) = 10
    \/ self.emotional_state = "concerned"

\* ConversationTracker.should_offer_human_handoff
should_offer_human_handoff(self) ==
    \/ self.high_intent_signals >= 3
    \/ Len(self.concerns) >= 2
    \/ Len(self.interactions) >= 10
    \/ self.emotional_state = "concerned"

-----------------------------------------------------------------------------
(* ResponseEnhancer.  family_ctx is the child_name of the family context,  *)
(* the only field the enhancer reads: None when there is no context or no  *)
(* child name.  A raised TypeError is the non-text value TypeError.        *)

\* ResponseEnhancer.reassurance_phrases
reassurance_phrases ==
    <<<<"T","h","a","t","'","s"," ","a"," ","v","e","r","y"," ","c","o","m","m","o","n"," ","c","o","n","c","e","r","n",","," ","a","n","d"," ","I","'","m"," ","h","a","p","p","y"," ","t","o"," ","a","d","d","r","e","s","s"," ","i","t",".",".",".">>,
      <<"M","a","n","y"," ","p","a","r","e","n","t","s"," ","a","s","k"," ","a","b","o","u","t"," ","t","h","i","s",","," ","a","n","d"," ","i","t","'","s"," ","i","m","p","o","r","t","a","n","t"," ","t","o"," ","g","e","t"," ","i","t"," ","r","i","g","h","t",".",".",".">>,
      <<"I"," ","c","o","m","p","l","e","t","e","l","y"," ","u","n","d","e","r","s","t","a","n","d"," ","w","h","y"," ","y","o","u","'","d"," ","w","a","n","t"," ","t","o"," ","k","n","o","w"," ","a","b","o","u","t"," ","t","h","i","s",".",".",".">>,
      <<"T","h","a","t","'","s"," ","a","n"," ","e","x","c","e","l","l","e","n","t"," ","q","u","e","s","t","i","o","n",","," ","a","n","d"," ","I","'","m"," ","g","l","a","d"," ","y","o","u"," ","a","s","k","e","d",".",".",".">>>>

your_daughter ==
    <<"y","o","u","r"," ","d","a","u","g","h","t","e","r">>

TypeError == <<"TypeError">>

\* the elements of a set of texts in some order (a Python set iterates in hash order)
RECURSIVE SetToSeq(_)
SetToSeq(S) ==
    IF S = {} THEN <<>>
    ELSE LET e == CHOOSE e \in S : TRUE IN <<e>> \o SetToSeq(S \ {e})

\* repr() of a str without characters that need escaping
PyRepr(t) ==
    IF Contains(t, <<"'">>) /\ ~Contains(t, <<"\"">>)
    THEN <<"\"">> \o t \o <<"\"">>
    ELSE <<"'">> \o t \o <<"'">>

RECURSIVE JoinRepr(_)
JoinRepr(ts) ==
    IF ts = <<>> THEN <<>>
    ELSE IF Len(ts) = 1 THEN PyRepr(ts[1])
    ELSE PyRepr(ts[1]) \o <<",", " ">> \o JoinRepr(Tail(ts))

\* str(context.topics_discussed)
StrOfSet(S) ==
    IF S = {} THEN <<"s","e","t","(",")">>
    ELSE <<"{">> \o JoinRepr(SetToSeq(S)) \o <<"}">>

\* ResponseEnhancer._add_acknowledgment; "None in str" raises TypeError
_add_acknowledgment(context) ==
    LET ack_first ==
            <<"H","e","l","l","o","!"," ","W","h","a","t"," ","a"," ","l","o","v","e","l","y"," ","q","u",
              "e","s","t","i","o","n"," ","t","o"," ","s","t","a","r","t"," ","w","i","t","h",".">>
        ack_following ==
            <<"F","o","l","l","o","w","i","n","g"," ","o","n"," ","f","r","o","m"," ","w","h","a","t"," ",
              "w","e"," ","d","i","s","c","u","s","s","e","d",".",".",".">>
        ack_concerned ==
            <<"I"," ","c","a","n"," ","h","e","a","r"," ","t","h","i","s"," ","i","s"," ","i","m","p","o",
              "r","t","a","n","t"," ","t","o"," ","y","o","u",".">>
        acknowledgments ==
            <<<<"T","h","a","t","'","s"," ","a"," ","g","r","e","a","t"," ","q","u","e","s","t","i","o","n",".">>,
              <<"I","'","m"," ","g","l","a","d"," ","y","o","u"," ","a","s","k","e","d"," ","a","b","o","u","t"," ","t","h","a","t",".">>,
              <<"L","e","t"," ","m","e"," ","t","e","l","l"," ","y","o","u"," ","a","b","o","u","t"," ","t","h","a","t",".">>,
              <<"E","x","c","e","l","l","e","n","t"," ","q","u","e","s","t","i","o","n",".">>,
              <<"M","a","n","y"," ","f","a","m","i","l","i","e","s"," ","a","s","k"," ","a","b","o","u","t"," ","t","h","i","s",".">>>>
    IN  IF Len(context.interactions) = 0 THEN ack_first
        ELSE IF context.last_topic = None THEN TypeError
        ELSE IF Contains(StrOfSet(context.topics_discussed), context.last_topic) THEN ack_following
        ELSE IF context.emotional_state = "concerned" THEN ack_concerned
        ELSE acknowledgments[(Len(context.interactions) % Len(acknowledgments)) + 1]

\* ResponseEnhancer._categorize_topic
_categorize_topic(topic) ==
    LET category_words_fees ==
            <<<<"f","e","e">>,
              <<"c","o","s","t">>,
              <<"p","r","i","c","e">>,
              <<"b","u","r","s">>,
              <<"s","c","h","o","l","a","r">>>>
        category_words_sports ==
            <<<<"s","p","o","r","t">>,
              <<"a","t","h","l","e","t","i","c">>,
              <<"t","e","a","m">>,
              <<"f","o","o","t","b","a","l","l">>,
              <<"n","e","t","b","a","l","l">>>>
        category_words_academic ==
            <<<<"a","c","a","d","e","m","i","c">>,
              <<"s","u","b","j","e","c","t">>,
              <<"c","u","r","r","i","c","u","l","u","m">>,
              <<"e","x","a","m">>,
              <<"r","e","s","u","l","t">>>>
        category_words_admissions ==
            <<<<"a","d","m","i","s","s","i","o","n">>,
              <<"a","p","p","l","y">>,
              <<"j","o","i","n">>,
              <<"e","n","t","r","y">>,
              <<"r","e","g","i","s","t","e","r">>>>
        category_words_pastoral ==
            <<<<"p","a","s","t","o","r","a","l">>,
              <<"c","a","r","e">>,
              <<"w","e","l","l","b","e","i","n","g">>,
              <<"s","u","p","p","o","r","t">>,
              <<"h","e","l","p">>>>
    IN  LET topic_lower == IF Truthy(topic) THEN Lower(topic) ELSE <<>>
        IN  IF ContainsAny(topic_lower, category_words_fees) THEN "fees"
            ELSE IF ContainsAny(topic_lower, category_words_sports) THEN "sports"
            ELSE IF ContainsAny(topic_lower, category_words_academic) THEN "academic"
            ELSE IF ContainsAny(topic_lower, category_words_admissions) THEN "admissions"
            ELSE IF ContainsAny(topic_lower, category_words_pastoral) THEN "pastoral"
            ELSE "general"

\* self.follow_up_questions.get(topic_key, ["What else would you like to know?"])
follow_up_questions(topic_key) ==
    LET follow_up_fees ==
            <<<<"A","r","e"," ","y","o","u"," ","a","l","s","o"," ","i","n","t","e","r","e","s","t","e","d"," ","i","n"," ","o","u","r"," ","s","c","h","o","l","a","r","s","h","i","p"," ","o","p","p","o","r","t","u","n","i","t","i","e","s","?">>,
              <<"W","o","u","l","d"," ","y","o","u"," ","l","i","k","e"," ","t","o"," ","k","n","o","w"," ","a","b","o","u","t"," ","o","u","r"," ","p","a","y","m","e","n","t"," ","p","l","a","n","s","?">>,
              <<"S","h","a","l","l"," ","I"," ","e","x","p","l","a","i","n"," ","o","u","r"," ","b","u","r","s","a","r","y"," ","p","r","o","g","r","a","m","m","e","?">>>>
        follow_up_sports ==
            <<<<"W","h","a","t"," ","s","p","o","r","t","s"," ","d","o","e","s"," ","{","c","h","i","l","d","_","n","a","m","e","}"," ","e","n","j","o","y"," ","c","u","r","r","e","n","t","l","y","?">>,
              <<"I","s"," ","{","c","h","i","l","d","_","n","a","m","e","}"," ","i","n","t","e","r","e","s","t","e","d"," ","i","n"," ","c","o","m","p","e","t","i","t","i","v","e"," ","t","e","a","m","s"," ","o","r"," ","r","e","c","r","e","a","t","i","o","n","a","l"," ","a","c","t","i","v","i","t","i","e","s","?">>,
              <<"W","o","u","l","d"," ","y","o","u"," ","l","i","k","e"," ","t","o"," ","k","n","o","w"," ","a","b","o","u","t"," ","o","u","r"," ","s","p","o","r","t","s"," ","f","a","c","i","l","i","t","i","e","s","?">>>>
        follow_up_academic ==
            <<<<"W","h","a","t"," ","s","u","b","j","e","c","t","s"," ","d","o","e","s"," ","{","c","h","i","l","d","_","n","a","m","e","}"," ","p","a","r","t","i","c","u","l","a","r","l","y"," ","e","n","j","o","y","?">>,
              <<"A","r","e"," ","y","o","u"," ","i","n","t","e","r","e","s","t","e","d"," ","i","n"," ","o","u","r"," ","a","c","a","d","e","m","i","c"," ","e","n","r","i","c","h","m","e","n","t"," ","p","r","o","g","r","a","m","m","e","s","?">>,
              <<"W","o","u","l","d"," ","y","o","u"," ","l","i","k","e"," ","t","o"," ","s","e","e"," ","o","u","r"," ","r","e","c","e","n","t"," ","e","x","a","m"," ","r","e","s","u","l","t","s","?">>>>
        follow_up_admissions ==
            <<<<"W","h","i","c","h"," ","y","e","a","r"," ","g","r","o","u","p"," ","a","r","e"," ","y","o","u"," ","c","o","n","s","i","d","e","r","i","n","g"," ","f","o","r"," ","e","n","t","r","y","?">>,
              <<"W","o","u","l","d"," ","y","o","u"," ","l","i","k","e"," ","t","o"," ","b","o","o","k"," ","a"," ","p","e","r","s","o","n","a","l"," ","t","o","u","r","?">>,
              <<"S","h","a","l","l"," ","I"," ","e","x","p","l","a","i","n"," ","o","u","r"," ","a","p","p","l","i","c","a","t","i","o","n"," ","t","i","m","e","l","i","n","e","?">>>>
        follow_up_pastoral ==
            <<<<"I","s"," ","t","h","e","r","e"," ","a","n","y","t","h","i","n","g"," ","s","p","e","c","i","f","i","c"," ","a","b","o","u","t"," ","{","c","h","i","l","d","_","n","a","m","e","}","'","s"," ","n","e","e","d","s"," ","I"," ","s","h","o","u","l","d"," ","k","n","o","w","?">>,
              <<"W","o","u","l","d"," ","y","o","u"," ","l","i","k","e"," ","t","o"," ","s","p","e","a","k"," ","w","i","t","h"," ","o","u","r"," ","p","a","s","t","o","r","a","l"," ","t","e","a","m","?">>,
              <<"A","r","e"," ","y","o","u"," ","i","n","t","e","r","e","s","t","e","d"," ","i","n"," ","o","u","r"," ","w","e","l","l","b","e","i","n","g"," ","p","r","o","g","r","a","m","m","e","s","?">>>>
        follow_up_default ==
            <<<<"W","h","a","t"," ","e","l","s","e"," ","w","o","u","l","d"," ","y","o","u"," ","l","i","k","e"," ","t","o"," ","k","n","o","w","?">>>>
    IN  IF topic_key = "fees" THEN follow_up_fees
        ELSE IF topic_key = "sports" THEN follow_up_sports
        ELSE IF topic_key = "academic" THEN follow_up_academic
        ELSE IF topic_key = "admissions" THEN follow_up_admissions
        ELSE IF topic_key = "pastoral" THEN follow_up_pastoral
        ELSE follow_up_default

\* ResponseEnhancer._get_follow_up_question
_get_follow_up_question(context, family_ctx) ==
    LET follow_up_no_topic ==
            <<"I","s"," ","t","h","e","r","e"," ","a","n","y","t","h","i","n","g"," ","s","p","e","c","i",
              "f","i","c"," ","y","o","u","'","d"," ","l","i","k","e"," ","t","o"," ","k","n","o","w"," ",
              "a","b","o","u","t"," ","C","h","e","l","t","e","n","h","a","m"," ","C","o","l","l","e","g",
              "e","?">>
        child_name_placeholder ==
            <<"{","c","h","i","l","d","_","n","a","m","e","}">>
    IN  IF ~Truthy(context.last_topic) THEN follow_up_no_topic
        ELSE LET question(questions) == questions[(Len(context.interactions) % Len(questions)) + 1]
             IN  Replace(question(follow_up_questions(_categorize_topic(context.last_topic))),
                         child_name_placeholder,
                         IF Truthy(family_ctx) THEN family_ctx ELSE your_daughter)

\* ResponseEnhancer.enhance_for_voice
enhance_for_voice(base_answer, context, family_ctx) ==
    LET your_child ==
            <<"y","o","u","r"," ","c","h","i","l","d">>
        handoff_offer ==
            <<" ","B","y"," ","t","h","e"," ","w","a","y",","," ","w","o","u","l","d"," ","y","o","u"," ",
              "l","i","k","e"," ","m","e"," ","t","o"," ","a","r","r","a","n","g","e"," ","f","o","r"," ",
              "s","o","m","e","o","n","e"," ","f","r","o","m"," ","o","u","r"," ","a","d","m","i","s","s",
              "i","o","n","s"," ","t","e","a","m"," ","t","o"," ","c","a","l","l"," ","y","o","u"," ","d",
              "i","r","e","c","t","l","y","?">>
    IN  LET personal(withBase) ==
                IF Truthy(family_ctx)
                THEN Replace(Replace(withBase, your_child, family_ctx), your_daughter, family_ctx)
                ELSE withBase
            reassured(enhanced) ==
                IF context.emotional_state = "concerned"
                THEN reassurance_phrases[(Len(context.concerns) % Len(reassurance_phrases)) + 1]
                     \o <<" ">> \o enhanced
                ELSE enhanced
            followed(enhanced, follow_up) ==
                IF Truthy(follow_up) THEN enhanced \o <<" ">> \o follow_up ELSE enhanced
            handoff(enhanced) ==
                IF should_offer_human_handoff(context) /\ Len(context.interactions) % 5 = 0
                THEN enhanced \o handoff_offer
                ELSE enhanced
            voiced(ack) ==
                IF ack = TypeError THEN TypeError
                ELSE handoff(followed(reassured(personal(ack \o <<" ">> \o base_answer)),
                                      _get_follow_up_question(context, family_ctx)))
        IN  voiced(_add_acknowledgment(context))


-----------------------------------------------------------------------------
(* Topic detection and topic links.                                        *)

topic_fees ==
    <<"f","e","e","s">>

topic_admissions ==
    <<"a","d","m","i","s","s","i","o","n","s">>

topic_subjects ==
    <<"s","u","b","j","e","c","t","s">>

topic_boarding ==
    <<"b","o","a","r","d","i","n","g">>

topic_scholarships ==
    <<"s","c","h","o","l","a","r","s","h","i","p","s">>

topic_open_events ==
    <<"o","p","e","n","_","e","v","e","n","t","s">>

topic_sixth_form ==
    <<"s","i","x","t","h","_","f","o","r","m">>

topic_sport ==
    <<"s","p","o","r","t">>

\* get_better_url_and_label: topic_urls as <<topic, url, label>> rows
topic_urls ==
    <<<<topic_fees,
        <<"h","t","t","p","s",":","/","/","w","w","w",".","c","h","e","l","t","e","n","h","a","m",
          "c","o","l","l","e","g","e",".","o","r","g","/","a","d","m","i","s","s","i","o","n","s",
          "/","f","e","e","s","/">>,
        <<"V","i","e","w"," ","f","e","e","s"," ","p","a","g","e">>>>,
      <<topic_admissions,
        <<"h","t","t","p","s",":","/","/","w","w","w",".","c","h","e","l","t","e","n","h","a","m",
          "c","o","l","l","e","g","e",".","o","r","g","/","a","d","m","i","s","s","i","o","n","s",
          "/">>,
        <<"V","i","s","i","t"," ","a","d","m","i","s","s","i","o","n","s"," ","p","a","g","e">>>>,
      <<topic_subjects,
        <<"h","t","t","p","s",":","/","/","w","w","w",".","c","h","e","l","t","e","n","h","a","m",
          "c","o","l","l","e","g","e",".","o","r","g","/","c","o","l","l","e","g","e","/","c","u",
          "r","r","i","c","u","l","u","m","/">>,
        <<"E","x","p","l","o","r","e"," ","c","u","r","r","i","c","u","l","u","m">>>>,
      <<topic_boarding,
        <<"h","t","t","p","s",":","/","/","w","w","w",".","c","h","e","l","t","e","n","h","a","m",
          "c","o","l","l","e","g","e",".","o","r","g","/","c","o","l","l","e","g","e","/","b","o",
          "a","r","d","i","n","g","/">>,
        <<"D","i","s","c","o","v","e","r"," ","b","o","a","r","d","i","n","g"," ","l","i","f","e">>>>,
      <<topic_scholarships,
        <<"h","t","t","p","s",":","/","/","w","w","w",".","c","h","e","l","t","e","n","h","a","m",
          "c","o","l","l","e","g","e",".","o","r","g","/","a","d","m","i","s","s","i","o","n","s",
          "/","s","c","h","o","l","a","r","s","h","i","p","s","-","a","w","a","r","d","s","/">>,
        <<"V","i","e","w"," ","s","c","h","o","l","a","r","s","h","i","p","s">>>>,
      <<topic_open_events,
        <<"h","t","t","p","s",":","/","/","w","w","w",".","c","h","e","l","t","e","n","h","a","m",
          "c","o","l","l","e","g","e",".","o","r","g","/","a","d","m","i","s","s","i","o","n","s",
          "/","v","i","s","i","t","-","u","s","/","o","p","e","n","-","e","v","e","n","t","s","/">>,
        <<"B","o","o","k"," ","o","p","e","n"," ","e","v","e","n","t">>>>,
      <<topic_sixth_form,
        <<"h","t","t","p","s",":","/","/","w","w","w",".","c","h","e","l","t","e","n","h","a","m",
          "c","o","l","l","e","g","e",".","o","r","g","/","c","o","l","l","e","g","e","/","u","p",
          "p","e","r","-","c","o","l","l","e","g","e","-","1","6","-","1","8","/">>,
        <<"L","e","a","r","n"," ","a","b","o","u","t"," ","S","i","x","t","h"," ","F","o","r","m">>>>,
      <<topic_sport,
        <<"h","t","t","p","s",":","/","/","w","w","w",".","c","h","e","l","t","e","n","h","a","m",
          "c","o","l","l","e","g","e",".","o","r","g","/","c","o","l","l","e","g","e","/","c","o",
          "-","c","u","r","r","i","c","u","l","a","r","/","s","p","o","r","t","/">>,
        <<"E","x","p","l","o","r","e"," ","s","p","o","r","t","s">>>>>>

\* get_better_url_and_label: fallback url
default_site_url ==
    <<"h","t","t","p","s",":","/","/","w","w","w",".","c","h","e","l","t","e","n","h","a","m","c",
      "o","l","l","e","g","e",".","o","r","g","/">>

\* get_better_url_and_label: fallback label
default_site_label ==
    <<"V","i","s","i","t"," ","w","e","b","s","i","t","e">>

\* detect_topic_from_question
detect_topic_from_question(question_text) ==
    LET topic_words_fees ==
            <<<<"f","e","e">>,
              <<"c","o","s","t">>,
              <<"p","r","i","c","e">>,
              <<"t","u","i","t","i","o","n">>,
              <<"c","h","a","r","g","e","s">>>>
        topic_words_admissions ==
            <<<<"a","d","m","i","s","s","i","o","n">>,
              <<"a","p","p","l","y">>,
              <<"j","o","i","n">>,
              <<"r","e","g","i","s","t","e","r">>>>
        topic_words_subjects ==
            <<<<"s","u","b","j","e","c","t">>,
              <<"c","u","r","r","i","c","u","l","u","m">>,
              <<"a","c","a","d","e","m","i","c">>>>
        topic_words_boarding ==
            <<<<"b","o","a","r","d","i","n","g">>,
              <<"b","o","a","r","d","e","r">>,
              <<"h","o","u","s","e">>>>
        topic_words_scholarships ==
            <<<<"s","c","h","o","l","a","r","s","h","i","p">>,
              <<"b","u","r","s","a","r","y">>,
              <<"a","w","a","r","d">>>>
        topic_words_open_events ==
            <<<<"o","p","e","n">>,
              <<"v","i","s","i","t">>,
              <<"t","o","u","r">>>>
        topic_words_sixth_form ==
            <<<<"s","i","x","t","h"," ","f","o","r","m">>,
              <<"a"," ","l","e","v","e","l">>,
              <<"u","p","p","e","r"," ","c","o","l","l","e","g","e">>>>
        topic_words_sport ==
            <<<<"s","p","o","r","t">>,
              <<"a","t","h","l","e","t","i","c","s">>,
              <<"r","u","g","b","y">>,
              <<"n","e","t","b","a","l","l">>>>
    IN  LET q_lower == Lower(question_text)
        IN  IF ContainsAny(q_lower, topic_words_fees) THEN topic_fees
            ELSE IF ContainsAny(q_lower, topic_words_admissions) THEN topic_admissions
            ELSE IF ContainsAny(q_lower, topic_words_subjects) THEN topic_subjects
            ELSE IF ContainsAny(q_lower, topic_words_boarding) THEN topic_boarding
            ELSE IF ContainsAny(q_lower, topic_words_scholarships) THEN topic_scholarships
            ELSE IF ContainsAny(q_lower, topic_words_open_events) THEN topic_open_events
            ELSE IF ContainsAny(q_lower, topic_words_sixth_form) THEN topic_sixth_form
            ELSE IF ContainsAny(q_lower, topic_words_sport) THEN topic_sport
            ELSE None

\* get_better_url_and_label: <<url, label>>
get_better_url_and_label(detected_topic, meta_url) ==
    LET rows == {n \in 1..Len(topic_urls) : topic_urls[n][1] = detected_topic}
    IN  IF Truthy(detected_topic) /\ rows # {}
        THEN LET n == CHOOSE n \in rows : TRUE IN <<topic_urls[n][2], topic_urls[n][3]>>
        ELSE <<IF Truthy(meta_url) THEN meta_url ELSE default_site_url, default_site_label>>

-----------------------------------------------------------------------------
(* Text utilities and the regular expressions of the retrieval tier.       *)
(* Positions p, e are 0-based offsets into the text, as in Python.         *)

Digits == {"0","1","2","3","4","5","6","7","8","9"}

UpperCase == DOMAIN UpperToLower

LowerCase == {UpperToLower[c] : c \in UpperCase}

\* \w on the characters of the model (letters, digits, underscore)
WordChars == UpperCase \cup LowerCase \cup Digits \cup {"_"}

\* [U+2022 \- \* \d] of remove_bullets
BulletChars == {"U+2022", "-", "*"} \cup Digits

\* number of consecutive characters of s from offset p that lie in C
RECURSIVE RunLen(_, _, _)
RunLen(s, p, C) ==
    IF p < Len(s) /\ s[p + 1] \in C THEN 1 + RunLen(s, p + 1, C) ELSE 0

\* offset of the first occurrence of character c at or after p, Len(s) when there is none
IndexOf(s, c, p) ==
    LET occ == {q \in p..(Len(s) - 1) : s[q + 1] = c}
    IN  IF occ = {} THEN Len(s) ELSE SetMin(occ)

\* re.sub(r"^[\s]*([U+2022\-\*\d]+\s*)+", "", text, flags=re.MULTILINE): the offset
\* where the match that starts at offset p ends, -1 when none starts there
bullets_end(s, p) ==
    LET b == p + RunLen(s, p, Whitespace)
    IN  IF (p = 0 \/ s[p] = "\n") /\ b < Len(s) /\ s[b + 1] \in BulletChars
        THEN b + RunLen(s, b, BulletChars \cup Whitespace)
        ELSE -1

\* the text from offset p on, without the matches
RECURSIVE remove_bullets_from(_, _)
remove_bullets_from(s, p) ==
    LET starts == {q \in p..(Len(s) - 1) : bullets_end(s, q) >= 0}
    IN  IF starts = {} THEN From(s, p)
        ELSE SubSeq(s, p + 1, SetMin(starts))
             \o remove_bullets_from(s, bullets_end(s, SetMin(starts)))

\* remove_bullets
remove_bullets(text) == remove_bullets_from(text, 0)

\* re.sub(r"\n{n,}", "\n\n", s) from offset p on: a run of at least n newlines becomes two
RECURSIVE collapse_newlines_from(_, _, _)
collapse_newlines_from(s, n, p) ==
    LET starts == {q \in p..(Len(s) - 1) : RunLen(s, q, {"\n"}) >= n}
    IN  IF starts = {} THEN From(s, p)
        ELSE SubSeq(s, p + 1, SetMin(starts)) \o <<"\n", "\n">>
             \o collapse_newlines_from(s, n, SetMin(starts) + RunLen(s, SetMin(starts), {"\n"}))

collapse_newlines(s, n) == collapse_newlines_from(s, n, 0)

\* format_response: re.sub(r"\n{2,}", "\n\n", text.strip())
format_response(text) == collapse_newlines(Strip(text), 2)

\* r'\*\*([^*]+)\*\*:' when colon, r'\*\*([^*]+)\*\*' otherwise: the offset of the
\* closing ** of the match that starts at offset p, -1 when none starts there
emphasis_close(s, p, colon) ==
    LET e == IndexOf(s, "*", p + 2)
    IN  IF /\ p + 2 <= Len(s) /\ s[p + 1] = "*" /\ s[p + 2] = "*"
           /\ e > p + 2
           /\ e + 2 <= Len(s) /\ s[e + 1] = "*" /\ s[e + 2] = "*"
           /\ (colon => (e + 3 <= Len(s) /\ s[e + 3] = ":"))
        THEN e
        ELSE -1

\* re.sub(r'\*\*([^*]+)\*\*:', r'\1:', s) when colon, re.sub(r'\*\*([^*]+)\*\*', r'\1', s)
\* otherwise, from offset p on
RECURSIVE strip_emphasis_from(_, _, _)
strip_emphasis_from(s, colon, p) ==
    LET starts == {q \in p..(Len(s) - 1) : emphasis_close(s, q, colon) >= 0}
    IN  IF starts = {} THEN From(s, p)
        ELSE LET q == SetMin(starts)
                 e == emphasis_close(s, q, colon)
             IN  SubSeq(s, p + 1, q) \o SubSeq(s, q + 3, e)
                 \o (IF colon THEN <<":">> ELSE <<>>)
                 \o strip_emphasis_from(s, colon, IF colon THEN e + 3 ELSE e + 2)

strip_emphasis(s, colon) == strip_emphasis_from(s, colon, 0)

\* r'(\w)\s*([A-Z][^:]*:)': the offset of the capital letter of the match that
\* starts at offset p, -1 when none starts there
heading_start(s, p) ==
    LET j == p + 1 + RunLen(s, p + 1, Whitespace)
    IN  IF /\ s[p + 1] \in WordChars
           /\ j < Len(s) /\ s[j + 1] \in UpperCase
           /\ IndexOf(s, ":", j + 1) < Len(s)
        THEN j
        ELSE -1

\* re.sub(r'(\w)\s*([A-Z][^:]*:)', r'\1\n\n\2', s) from offset p on
RECURSIVE split_headings_from(_, _)
split_headings_from(s, p) ==
    LET starts == {q \in p..(Len(s) - 1) : heading_start(s, q) >= 0}
    IN  IF starts = {} THEN From(s, p)
        ELSE LET q == SetMin(starts)
                 j == heading_start(s, q)
                 c == IndexOf(s, ":", j + 1)
             IN  SubSeq(s, p + 1, q + 1) \o <<"\n", "\n">> \o SubSeq(s, j + 1, c + 1)
                 \o split_headings_from(s, c + 1)

split_headings(s) == split_headings_from(s, 0)

\* bool(re.search(r'U+00A3[\d,]+', clean))
has_amounts(clean) ==
    \E p \in 1..(Len(clean) - 1) : clean[p] = "U+00A3" /\ clean[p + 1] \in Digits \cup {","}

-----------------------------------------------------------------------------
(* Literals of find_best_answer.                                           *)

\* find_best_answer: open_day_keywords
open_day_keywords ==
    <<<<"o","p","e","n"," ","d","a","y">>,
      <<"o","p","e","n"," ","m","o","r","n","i","n","g">>,
      <<"o","p","e","n"," ","e","v","e","n","i","n","g">>,
      <<"v","i","s","i","t">>,
      <<"t","o","u","r">>>>

OPEN_DAYS_URL ==
    <<"h","t","t","p","s",":","/","/","w","w","w",".","c","h","e","l","t","e","n","h","a","m","c",
      "o","l","l","e","g","e",".","o","r","g","/","a","d","m","i","s","s","i","o","n","s","/","v",
      "i","s","i","t","-","u","s","/","o","p","e","n","-","e","v","e","n","t","s","/">>

next_event_1 ==
    <<"O","u","r"," ","n","e","x","t"," ">>

no_events_1 ==
    <<"W","e"," ","d","o","n","'","t"," ","c","u","r","r","e","n","t","l","y"," ","h","a","v","e",
      " ","a","n","y"," ","u","p","c","o","m","i","n","g"," ","O","p","e","n"," ","D","a","y","s",
      " ","l","i","s","t","e","d","."," ">>

topic_general ==
    <<"g","e","n","e","r","a","l">>

topic_unknown ==
    <<"u","n","k","n","o","w","n">>

\* find_best_answer: no_match_response
no_match_response ==
    <<"I","'","m"," ","s","o","r","r","y",","," ","I"," ","d","o","n","'","t"," ","h","a","v","e",
      " ","t","h","a","t"," ","s","p","e","c","i","f","i","c"," ","i","n","f","o","r","m","a","t",
      "i","o","n"," ","t","o"," ","h","a","n","d","."," ","W","o","u","l","d"," ","y","o","u"," ",
      "l","i","k","e"," ","m","e"," ","t","o"," ","c","o","n","n","e","c","t"," ","y","o","u"," ",
      "w","i","t","h"," ","o","u","r"," ","a","d","m","i","s","s","i","o","n","s"," ","t","e","a",
      "m"," ","w","h","o"," ","c","a","n"," ","h","e","l","p","?">>

\* find_best_answer: fees template, text without amounts
fees_info_head ==
    <<"F","E","E","S"," ","&"," ","F","I","N","A","N","C","I","A","L"," ","I","N","F","O","R","M",
      "A","T","I","O","N","\n","\n">>

fees_info_tail ==
    <<"\n","\n","I","M","P","O","R","T","A","N","T"," ","I","N","F","O","R","M","A","T","I","O","N",
      ":","\n","\n","U+2022"," ","A","l","l"," ","f","e","e","s"," ","e","x","c","l","u","d","e",
      " ","V","A","T"," ","(","2","0","%"," ","w","i","l","l"," ","b","e"," ","a","d","d","e","d",
      " ","t","o"," ","f","i","n","a","l"," ","a","m","o","u","n","t",")","\n","U+2022"," ","B","u",
      "r","s","a","r","i","e","s"," ","a","n","d"," ","s","c","h","o","l","a","r","s","h","i","p",
      "s"," ","a","v","a","i","l","a","b","l","e"," ","f","o","r"," ","e","l","i","g","i","b","l",
      "e"," ","f","a","m","i","l","i","e","s","\n","U+2022"," ","F","l","e","x","i","b","l","e"," ",
      "p","a","y","m","e","n","t"," ","p","l","a","n","s"," ","c","a","n"," ","b","e"," ","a","r",
      "r","a","n","g","e","d","\n","\n","F","o","r"," ","d","e","t","a","i","l","e","d"," ","f","e",
      "e"," ","s","c","h","e","d","u","l","e","s",","," ","p","a","y","m","e","n","t"," ","o","p",
      "t","i","o","n","s",","," ","a","n","d"," ","f","i","n","a","n","c","i","a","l"," ","s","u",
      "p","p","o","r","t"," ","i","n","f","o","r","m","a","t","i","o","n",","," ","p","l","e","a",
      "s","e"," ","v","i","s","i","t"," ","o","u","r"," ","f","e","e","s"," ","p","a","g","e",".">>

\* find_best_answer: named-person template
leadership_answer ==
    <<"S","C","H","O","O","L"," ","L","E","A","D","E","R","S","H","I","P","\n","\n","H","e","a","d",
      ":"," ","M","r","s"," ","N","i","c","o","l","a"," ","H","u","g","g","e","t","t","\n","\n","M",
      "r","s"," ","H","u","g","g","e","t","t"," ","l","e","a","d","s"," ","C","h","e","l","t","e",
      "n","h","a","m"," ","C","o","l","l","e","g","e"," ","w","i","t","h"," ","e","x","t","e","n",
      "s","i","v","e"," ","e","x","p","e","r","i","e","n","c","e"," ","i","n"," ","i","n","d","e",
      "p","e","n","d","e","n","t"," ","e","d","u","c","a","t","i","o","n","."," ","S","h","e"," ",
      "i","s"," ","c","o","m","m","i","t","t","e","d"," ","t","o"," ","a","c","a","d","e","m","i",
      "c"," ","e","x","c","e","l","l","e","n","c","e",","," ","p","a","s","t","o","r","a","l"," ",
      "c","a","r","e",","," ","a","n","d"," ","d","e","v","e","l","o","p","i","n","g"," ","w","e",
      "l","l","-","r","o","u","n","d","e","d"," ","s","t","u","d","e","n","t","s"," ","w","h","o",
      " ","a","r","e"," ","p","r","e","p","a","r","e","d"," ","f","o","r"," ","f","u","t","u","r",
      "e"," ","s","u","c","c","e","s","s",".","\n","\n","F","o","r"," ","m","o","r","e"," ","i","n",
      "f","o","r","m","a","t","i","o","n"," ","a","b","o","u","t"," ","o","u","r"," ","l","e","a",
      "d","e","r","s","h","i","p"," ","t","e","a","m"," ","a","n","d"," ","s","t","a","f","f",",",
      " ","p","l","e","a","s","e"," ","v","i","s","i","t"," ","o","u","r"," ","w","e","b","s","i",
      "t","e",".">>

(* re.findall(r'(\w+day),?\s*(\d{1,2})[a-z]*\s*(\w+)\s*(\d{4})', clean).   *)
(* Each operator below is the set of lengths one quantifier can take at an *)
(* offset so that the rest of the pattern still matches; the regex engine  *)
(* takes the greatest such length, quantifier by quantifier.               *)

SetMax(S) == CHOOSE m \in S : \A n \in S : m >= n

Min2(a, b) == IF a < b THEN a ELSE b

\* the list of <<day, date_num, month, year>> groups of the non-overlapping matches from offset p
RECURSIVE findall_dates(_, _)
findall_dates(s, p) ==
    LET \* \s* before (\d{4})
        DateWs3(m1) == {w \in 0..RunLen(s, m1, Whitespace) : RunLen(s, m1 + w, Digits) >= 4}
        \* (\w+), the month
        DateMonth(m0) == {g \in 1..RunLen(s, m0, WordChars) : DateWs3(m0 + g) # {}}
        \* \s* before the month
        DateWs2(s1) == {w \in 0..RunLen(s, s1, Whitespace) : DateMonth(s1 + w) # {}}
        \* [a-z]*, the ordinal suffix
        DateSuffix(d1) == {a \in 0..RunLen(s, d1, LowerCase) : DateWs2(d1 + a) # {}}
        \* (\d{1,2})
        DateNum(d0) == {n \in 1..Min2(2, RunLen(s, d0, Digits)) : DateSuffix(d0 + n) # {}}
        \* \s* before the day number
        DateWs1(a1) == {w \in 0..RunLen(s, a1, Whitespace) : DateNum(a1 + w) # {}}
        \* ,?
        DateComma(e1) ==
            {c \in 0..(IF e1 < Len(s) /\ s[e1 + 1] = "," THEN 1 ELSE 0) : DateWs1(e1 + c) # {}}
        \* (\w+day)
        DateDay(q0) ==
            {n \in 4..RunLen(s, q0, WordChars) :
                SubSeq(s, q0 + n - 2, q0 + n) = <<"d","a","y">> /\ DateComma(q0 + n) # {}}
        starts == {q \in p..(Len(s) - 1) : DateDay(q) # {}}
    IN  IF starts = {} THEN <<>>
        ELSE LET groups(q, e1, d0, d1, m0, m1, y0) ==
                     <<<<SubSeq(s, q + 1, e1), SubSeq(s, d0 + 1, d1),
                         SubSeq(s, m0 + 1, m1), SubSeq(s, y0 + 1, y0 + 4)>>>>
                     \o findall_dates(s, y0 + 4)
                 month(q, e1, d0, d1, m0, m1) ==
                     groups(q, e1, d0, d1, m0, m1, m1 + SetMax(DateWs3(m1)))
                 ws2(q, e1, d0, d1, m0) ==
                     month(q, e1, d0, d1, m0, m0 + SetMax(DateMonth(m0)))
                 suffix(q, e1, d0, d1, s1) ==
                     ws2(q, e1, d0, d1, s1 + SetMax(DateWs2(s1)))
                 num(q, e1, d0, d1) ==
                     suffix(q, e1, d0, d1, d1 + SetMax(DateSuffix(d1)))
                 ws1(q, e1, d0) == num(q, e1, d0, d0 + SetMax(DateNum(d0)))
                 comma(q, e1, a1) == ws1(q, e1, a1 + SetMax(DateWs1(a1)))
                 day(q, e1) == comma(q, e1, e1 + SetMax(DateComma(e1)))
                 match(q) == day(q, q + SetMax(DateDay(q)))
             IN  match(SetMin(starts))

\* "\n".join(f"U+2022 {day} {date_num} {month} {year} from 9:30 AM - 12:30 PM" ...)
RECURSIVE events_list(_)
events_list(dates) ==
    LET date_time_window ==
            <<" ","f","r","o","m"," ","9",":","3","0"," ","A","M"," ","-"," ","1","2",":","3","0"," ","P",
              "M">>
    IN  IF dates = <<>> THEN <<>>
        ELSE LET d == dates[1]
                 line == <<"U+2022", " ">> \o d[1] \o <<" ">> \o d[2] \o <<" ">> \o d[3]
                         \o <<" ">> \o d[4] \o date_time_window
             IN  IF Len(dates) = 1 THEN line ELSE line \o <<"\n">> \o events_list(Tail(dates))

\* improved_answer returning the generated text as it is
improved_answer_unformatted(question, raw) == raw

\* find_best_answer, lines 589-679: the answer text built from the generated text
improved_answer(question, raw) ==
    LET fees_amounts_head ==
            <<"S","C","H","O","O","L"," ","F","E","E","S"," ","2","0","2","5","-","2","6","\n","\n">>
        fees_amounts_tail ==
            <<"\n","\n","I","M","P","O","R","T","A","N","T"," ","I","N","F","O","R","M","A","T","I","O","N",
              ":","\n","\n","U+2022"," ","A","l","l"," ","f","e","e","s"," ","e","x","c","l","u","d","e",
              " ","V","A","T"," ","(","2","0","%"," ","w","i","l","l"," ","b","e"," ","a","d","d","e","d",
              " ","t","o"," ","f","i","n","a","l"," ","a","m","o","u","n","t",")","\n","U+2022"," ","B","u",
              "r","s","a","r","i","e","s"," ","a","n","d"," ","s","c","h","o","l","a","r","s","h","i","p",
              "s"," ","a","v","a","i","l","a","b","l","e"," ","f","o","r"," ","e","l","i","g","i","b","l",
              "e"," ","f","a","m","i","l","i","e","s"," "," ","\n","U+2022"," ","F","l","e","x","i","b","l",
              "e"," ","p","a","y","m","e","n","t"," ","p","l","a","n","s"," ","c","a","n"," ","b","e"," ",
              "a","r","r","a","n","g","e","d","\n","\n","F","o","r"," ","c","o","m","p","l","e","t","e"," ",
              "f","e","e"," ","s","c","h","e","d","u","l","e","s"," ","a","n","d"," ","a","d","d","i","t",
              "i","o","n","a","l"," ","c","o","s","t"," ","b","r","e","a","k","d","o","w","n","s",","," ",
              "p","l","e","a","s","e"," ","v","i","s","i","t"," ","o","u","r"," ","f","e","e","s"," ","p",
              "a","g","e",".">>
        open_morning_head ==
            <<"O","P","E","N"," ","M","O","R","N","I","N","G"," ","E","V","E","N","T","S","\n","\n","J","o",
              "i","n"," ","u","s"," ","f","o","r"," ","a","n"," ","O","p","e","n"," ","M","o","r","n","i",
              "n","g"," ","t","o"," ","e","x","p","l","o","r","e"," ","o","u","r"," ","f","a","c","i","l",
              "i","t","i","e","s",","," ","m","e","e","t"," ","s","t","a","f","f"," ","a","n","d"," ","s",
              "t","u","d","e","n","t","s",","," ","a","n","d"," ","e","x","p","e","r","i","e","n","c","e",
              " ","s","c","h","o","o","l"," ","l","i","f","e"," ","f","i","r","s","t","h","a","n","d",".",
              "\n","\n","U","P","C","O","M","I","N","G"," ","D","A","T","E","S",":","\n","\n">>
        open_morning_tail ==
            <<"\n","\n","H","O","W"," ","T","O"," ","B","O","O","K",":","\n","\n","E","m","a","i","l",":",
              " ","v","i","s","i","t","s","@","c","h","e","l","t","e","n","h","a","m","c","o","l","l","e",
              "g","e",".","o","r","g","\n","P","h","o","n","e",":"," ","0","1","2","4","2"," ","2","6","5",
              "6","0","0","\n","\n","T","h","e","s","e"," ","e","v","e","n","t","s"," ","f","i","l","l"," ",
              "u","p"," ","q","u","i","c","k","l","y",","," ","s","o"," ","w","e"," ","r","e","c","o","m",
              "m","e","n","d"," ","b","o","o","k","i","n","g"," ","e","a","r","l","y"," ","t","o"," ","s",
              "e","c","u","r","e"," ","y","o","u","r"," ","p","l","a","c","e",".">>
    IN  LET w_open_morning ==
                <<"o","p","e","n"," ","m","o","r","n","i","n","g">>
            w_head ==
                <<"h","e","a","d">>
            w_nicola ==
                <<"n","i","c","o","l","a">>
            w_huggett ==
                <<"h","u","g","g","e","t","t">>
        IN  LET noEmphasis(s) == strip_emphasis(s, FALSE)
                headed(s) ==
                    collapse_newlines(split_headings(noEmphasis(strip_emphasis(s, TRUE))), 3)
                fees(clean) ==
                    IF has_amounts(clean)
                    THEN fees_amounts_head \o Strip(clean) \o fees_amounts_tail
                    ELSE fees_info_head \o Strip(clean) \o fees_info_tail
                listed(clean, dates) ==
                    IF dates # <<>>
                    THEN open_morning_head \o events_list(dates) \o open_morning_tail
                    ELSE noEmphasis(clean)
                open_events(clean) == listed(clean, findall_dates(clean, 0))
                by_topic(clean, lower, detected_topic) ==
                    IF detected_topic = topic_fees THEN fees(headed(clean))
                    ELSE IF detected_topic = topic_open_events \/ Contains(lower, w_open_morning)
                    THEN open_events(noEmphasis(clean))
                    ELSE IF /\ Contains(lower, w_head)
                            /\ (Contains(lower, w_nicola) \/ Contains(lower, w_huggett))
                    THEN leadership_answer
                    ELSE Strip(headed(clean))
                improved(clean) ==
                    by_topic(clean, Lower(clean), detect_topic_from_question(question))
            IN  improved(format_response(remove_bullets(raw)))

-----------------------------------------------------------------------------
(* Vector retriever.  A knowledge chunk is [text, url, embedding]; an      *)
(* embedding is a sequence of integers.  Passages are numbered from 1.     *)

RECURSIVE dot(_, _)
dot(u, v) == IF u = <<>> THEN 0 ELSE u[1] * v[1] + dot(Tail(u), Tail(v))

Sign(n) == IF n > 0 THEN 1 ELSE IF n < 0 THEN -1 ELSE 0

\* sims[i] <= sims[j] for sims = (EMBEDDINGS @ q_vec) / (norms * norm_q): the
\* cosines are compared through their signs and squares; the 1e-10 added to
\* the norms only keeps a zero vector's similarity at 0.
SimLE(kb, q_vec, i, j) ==
    LET di == dot(kb[i].embedding, q_vec)
        dj == dot(kb[j].embedding, q_vec)
        ni == dot(kb[i].embedding, kb[i].embedding)
        nj == dot(kb[j].embedding, kb[j].embedding)
    IN  IF Sign(di) # Sign(dj) THEN Sign(di) < Sign(dj)
        ELSE IF Sign(di) = 0 THEN TRUE
        ELSE IF Sign(di) > 0 THEN di * di * nj <= dj * dj * ni
        ELSE di * di * nj >= dj * dj * ni

\* the sequences of n distinct passage numbers
RECURSIVE Arrangements(_, _)
Arrangements(S, n) ==
    IF n = 0 THEN {<<>>}
    ELSE UNION {{<<e>> \o t : t \in Arrangements(S \ {e}, n - 1)} : e \in S}

\* take the k passages of highest similarity without sorting all of them
vector_search_unsorted(kb, q_vec, k) ==
    IF Len(kb) = 0 THEN {<<>>}
    ELSE IF Len(kb[1].embedding) # Len(q_vec) THEN {<<>>}
    ELSE LET N == Len(kb)
             argpartition ==
                 {p \in Arrangements(1..N, N) :
                     \A a \in 1..N :
                        /\ a < N - k + 1 => SimLE(kb, q_vec, p[a], p[N - k + 1])
                        /\ a > N - k + 1 => SimLE(kb, q_vec, p[N - k + 1], p[a])}
         IN  IF k >= N THEN Arrangements(1..N, N)
             ELSE UNION {Arrangements({p[a] : a \in (N - k + 1)..N}, k) : p \in argpartition}

\* vector_search on the embedding q_vec of the query: the index arrays idxs it
\* can return.  np.argsort(sims) is a permutation in non-decreasing
\* similarity and np.argpartition(sims, -k) a permutation with the entry at
\* position -k in its sorted place, smaller ones before and larger ones
\* after it; both order equal similarities in an unspecified way, so every
\* order of a tie is a possible result.
vector_search(kb, q_vec, k) ==
    IF Len(kb) = 0 THEN {<<>>}
    ELSE IF Len(kb[1].embedding) # Len(q_vec) THEN {<<>>}
    ELSE LET N == Len(kb)
             argsort(S) ==
                 {p \in Arrangements(S, Cardinality(S)) :
                     \A a \in 1..(Len(p) - 1) : SimLE(kb, q_vec, p[a], p[a + 1])}
             reversed(p) == [a \in 1..Len(p) |-> p[Len(p) + 1 - a]]
             argpartition ==
                 {p \in Arrangements(1..N, N) :
                     \A a \in 1..N :
                        /\ a < N - k + 1 => SimLE(kb, q_vec, p[a], p[N - k + 1])
                        /\ a > N - k + 1 => SimLE(kb, q_vec, p[N - k + 1], p[a])}
         IN  IF k >= N THEN {reversed(p) : p \in argsort(1..N)}
             ELSE UNION {{reversed(t) : t \in argsort({p[a] : a \in (N - k + 1)..N})} :
                            p \in argpartition}

-----------------------------------------------------------------------------
(* Collaborators outside the source tree.                                  *)

lang_en == <<"e","n">>

lang_fr == <<"f","r">>

\* language_engine.translate: into English by a small dictionary, into another
\* language by marking the text with the target language
translate(text, target) ==
    IF target = lang_en
    THEN IF Lower(Strip(text)) = <<"p","o","s","t","u","l","e","r">> THEN <<"A","p","p","l","y">>
         ELSE text
    ELSE <<"[">> \o target \o <<"]", " ">> \o text

-----------------------------------------------------------------------------
(* The matcher pipeline.                                                   *)

\* get_open_day_events: the events of the cache file, [] when it cannot be read
get_open_day_events(cache) == IF cache.readable THEN cache.events ELSE <<>>

\* date_iso strings are compared as <<year, month, day>>
DateLT(a, b) ==
    \/ a[1] < b[1]
    \/ a[1] = b[1] /\ a[2] < b[2]
    \/ a[1] = b[1] /\ a[2] = b[2] /\ a[3] < b[3]

\* next_event without the sort: the event listed first
next_event_first_listed(events) == events[1]

\* sorted(events, key=lambda e: e["date_iso"])[0]: sorted is stable
next_event(events) ==
    LET n == CHOOSE n \in 1..Len(events) :
                /\ \A m \in 1..Len(events) : ~DateLT(events[m].date_iso, events[n].date_iso)
                /\ \A m \in 1..(n - 1) : DateLT(events[n].date_iso, events[m].date_iso)
    IN  events[n]

\* [qa['key']] + qa.get('variants', [])
variants_of(qa) == <<qa.key>> \o qa.variants

\* exact_static_match with the loop running on after a match: the last entry that has q_lower
exact_static_match_last(q_lower, language) ==
    LET hits == {n \in 1..Len(STATIC_QAS) :
                    /\ STATIC_QAS[n].language = language
                    /\ \E v \in 1..Len(variants_of(STATIC_QAS[n])) :
                          Lower(variants_of(STATIC_QAS[n])[v]) = q_lower}
    IN  IF hits = {} THEN 0 ELSE CHOOSE n \in hits : \A m \in hits : n >= m

\* lines 515-519: number of the first entry of the language with a variant equal to q_lower, 0 if none
exact_static_match(q_lower, language) ==
    LET hits == {n \in 1..Len(STATIC_QAS) :
                    /\ STATIC_QAS[n].language = language
                    /\ \E v \in 1..Len(variants_of(STATIC_QAS[n])) :
                          Lower(variants_of(STATIC_QAS[n])[v]) = q_lower}
    IN  IF hits = {} THEN 0 ELSE CHOOSE n \in hits : \A m \in hits : n <= m

\* lines 534-544: the loop over entries n.. and variants v.., carrying <<best_score, best_match>>
RECURSIVE fuzzy_loop(_, _, _, _, _)
fuzzy_loop(q_lower, language, n, v, best) ==
    IF n > Len(STATIC_QAS) THEN best
    ELSE IF STATIC_QAS[n].language # language THEN fuzzy_loop(q_lower, language, n + 1, 1, best)
    ELSE IF v > Len(variants_of(STATIC_QAS[n])) THEN fuzzy_loop(q_lower, language, n + 1, 1, best)
    ELSE LET score == ratio(q_lower, Lower(variants_of(STATIC_QAS[n])[v]))
         IN  IF FracGT(score, best[1])
             THEN fuzzy_loop(q_lower, language, n, v + 1, <<score, n>>)
             ELSE fuzzy_loop(q_lower, language, n, v + 1, best)

\* <<best_score, best_match>>, best_match = 0 for None
fuzzy_static_match(q_lower, language) == fuzzy_loop(q_lower, language, 1, 1, <<<<0, 1>>, 0>>)

\* fuzzy_accepts with >= in place of >
fuzzy_accepts_at_threshold(best) == best[2] # 0 /\ ~FracGT(<<8, 10>>, best[1])

\* best_match and best_score > 0.8
fuzzy_accepts(best) == best[2] # 0 /\ FracGT(best[1], <<8, 10>>)

\* str(uuid.uuid4()) of a tracker that is not registered
anonymous_id == <<"u","u","i","d","4">>

\* what find_best_answer hands back: the five returned values, the exception
\* that left the function instead ("" when it returned), and whether the
\* enhancer and the generative provider were called
Returned(answer, url, label, matched_key, source, enhanced, llm) ==
    [answer |-> answer, url |-> url, label |-> label, matched_key |-> matched_key,
     source |-> source, raised |-> "", enhanced |-> enhanced, llm_called |-> llm]

Raised(exc, enhanced, llm) ==
    [answer |-> None, url |-> None, label |-> None, matched_key |-> None,
     source |-> "", raised |-> exc, enhanced |-> enhanced, llm_called |-> llm]

-----------------------------------------------------------------------------
(* Inputs: the questions asked, the requests of the clients and the        *)
(* answers of the collaborators.                                           *)

s1 == <<"s","1">>

s2 == <<"s","2">>

f1 == <<"f","1">>

\* no entry is near; topic fees; a high-intent keyword
q_fee == <<"f","e","e","?">>

\* no entry is near; a concern keyword
q_worried == <<"w","o","r","r","i","e","d">>

\* events of the open-days feed: the earliest date is not first, and two events share it
feed_events ==
    <<[event_name |-> <<"O","p","e","n"," ","E","v","e","n","i","n","g">>,
       date_iso |-> <<2025, 11, 20>>,
       date_human |-> <<"T","h","u","r","s","d","a","y"," ","2","0"," ","N","o","v","e","m","b","e","r"," ","2","0","2","5">>,
       booking_link |-> <<"h","t","t","p","s",":","/","/","x","/","z">>],
      [event_name |-> <<"O","p","e","n"," ","M","o","r","n","i","n","g">>,
       date_iso |-> <<2025, 11, 8>>,
       date_human |-> <<"S","a","t","u","r","d","a","y"," ","8"," ","N","o","v","e","m","b","e","r"," ","2","0","2","5">>,
       booking_link |-> <<"h","t","t","p","s",":","/","/","x","/","y">>],
      [event_name |-> <<"S","i","x","t","h"," ","F","o","r","m"," ","O","p","e","n"," ","M","o","r","n","i","n","g">>,
       date_iso |-> <<2025, 11, 8>>,
       date_human |-> <<"S","a","t","u","r","d","a","y"," ","8"," ","N","o","v","e","m","b","e","r"," ","2","0","2","5">>,
       booking_link |-> <<"h","t","t","p","s",":","/","/","x","/","w">>]>>

OpenDaysCaches ==
    {[readable |-> FALSE, events |-> <<>>],
     [readable |-> TRUE,  events |-> <<>>],
     [readable |-> TRUE,  events |-> feed_events]}

\* the chunks of kb_chunks.pkl: none, or three passages of dimension 2
KnowledgeBases ==
    {<<>>,
     <<[text |-> <<"f","e","e","s">>, url |-> <<"h","t","t","p","s",":","/","/","k","/","1">>, embedding |-> <<0, 2>>],
       [text |-> <<"d","a","y">>,     url |-> None,                                             embedding |-> <<3, 1>>],
       [text |-> <<"h","o","u","s","e">>, url |-> <<"h","t","t","p","s",":","/","/","k","/","3">>, embedding |-> <<0, 0>>]>>}

\* the embedding call: it fails, or returns a vector of the model's dimension
QueryEmbeddings ==
    {[ok |-> FALSE, vec |-> <<>>],
     [ok |-> TRUE,  vec |-> <<1, 0>>],
     [ok |-> TRUE,  vec |-> <<1, 0, 0>>]}

\* the chat completion call: it fails, or returns a text
ChatCompletions ==
    LET chat_fees ==
            <<"*","*","D","a","y"," ","f","e","e","s","*","*",":"," ","U+00A3","1","4",",","0","0","0"," ","a"," ","t","e","r","m",".","\n","\n","\n","-"," ","A","s","k"," ","u","s"," ","a","b","o","u","t"," ","y","o","u","r"," ","c","h","i","l","d">>
        chat_open ==
            <<"O","u","r"," ","O","p","e","n"," ","M","o","r","n","i","n","g"," ","i","s"," ","o","n"," ","S","a","t","u","r","d","a","y",","," ","8","t","h"," ","N","o","v","e","m","b","e","r"," ","2","0","2","5",".">>
    IN  {[ok |-> FALSE, content |-> <<>>],
         [ok |-> TRUE,  content |-> chat_fees],
         [ok |-> TRUE,  content |-> chat_open]}

FamilyContexts == {None, <<"A","m","y">>}

Request(question, language, session_id, family_id) ==
    [question |-> question, language |-> language, session_id |-> session_id, family_id |-> family_id]

\* the requests of the clients.  "Visit" holds an intent keyword, is a variant
\* of "open events" and holds a high-intent keyword; " Admissions" is the key
\* of "admissions" in another letter case and surrounded by blanks; "Job
\* Description" is a variant of two entries; "aply" scores 8/9 against
\* "apply"; "eal  x" scores 10/12 against "eal  c" and against "eal  p";
\* "joinxy" scores exactly 8/10 against "join", its best score; "fee?" matches
\* no entry; "postuler" is French and its translation a variant of
\* "admissions".
Requests ==
    LET q_visit ==
            <<"V","i","s","i","t">>
        q_admissions ==
            <<" ","A","d","m","i","s","s","i","o","n","s">>
        q_job ==
            <<"J","o","b"," ","D","e","s","c","r","i","p","t","i","o","n">>
        q_aply ==
            <<"a","p","l","y">>
        q_eal ==
            <<"e","a","l"," "," ","x">>
        q_joinxy ==
            <<"j","o","i","n","x","y">>
        q_postuler ==
            <<"p","o","s","t","u","l","e","r">>
    IN  {Request(q_visit,    lang_en, None, None),
         Request(q_visit,    lang_en, s1,   f1),
         Request(q_admissions, lang_en, None, None),
         Request(q_admissions, lang_en, s1,   f1),
         Request(q_job,      lang_en, s2,   None),
         Request(q_aply,     lang_en, s1,   None),
         Request(q_eal,      lang_en, None, None),
         Request(q_joinxy,   lang_en, None, None),
         Request(q_fee,      lang_en, s1,   f1),
         Request(q_postuler, lang_fr, None, None)}

\* the static matching of the questions asked, computed once
MatchInputs == {<<Lower(Strip(r.question)), r.language>> : r \in Requests}

MatchTable ==
    [p \in MatchInputs |-> [exact |-> exact_static_match(p[1], p[2]),
                            best  |-> fuzzy_static_match(p[1], p[2])]]

MatchMemo(q_lower, language) ==
    IF <<q_lower, language>> \in MatchInputs THEN MatchTable[<<q_lower, language>>]
    ELSE [exact |-> exact_static_match(q_lower, language),
          best  |-> fuzzy_static_match(q_lower, language)]

\* the answer texts of the generated texts, computed once
ImprovedInputs ==
    {<<r.question, c.content>> : r \in Requests, c \in {c \in ChatCompletions : c.ok}}

ImprovedTable == [p \in ImprovedInputs |-> improved_answer(p[1], p[2])]

ImprovedMemo(question, raw) ==
    IF <<question, raw>> \in ImprovedInputs THEN ImprovedTable[<<question, raw>>]
    ELSE improved_answer(question, raw)

\* answering_tier with the exact match tried before the intent keywords
answering_tier_exact_first(q_lower, language) ==
    LET tier(match) ==
            IF match.exact # 0 THEN "static"
            ELSE IF ContainsAny(q_lower, open_day_keywords) THEN "open_days"
            ELSE IF fuzzy_accepts(match.best) THEN "fuzzy"
            ELSE "retrieval"
    IN  tier(MatchMemo(q_lower, language))

\* find_best_answer, lines 486-560: the tier whose condition holds first
answering_tier(q_lower, language) ==
    LET tier(match) ==
            IF ContainsAny(q_lower, open_day_keywords) THEN "open_days"
            ELSE IF match.exact # 0 THEN "static"
            ELSE IF fuzzy_accepts(match.best) THEN "fuzzy"
            ELSE "retrieval"
    IN  tier(MatchMemo(q_lower, language))

\* find_best_answer, lines 486-504: what the intent shortcut returns
open_days_answer(cache) ==
    LET next_event_2 ==
            <<" ","i","s"," ","o","n"," ">>
        next_event_3 ==
            <<"."," ">>
        next_event_4 ==
            <<"Y","o","u"," ","c","a","n"," ","f","i","n","d"," ","m","o","r","e"," ","d","e","t","a","i",
              "l","s"," ","a","n","d"," ","r","e","g","i","s","t","e","r"," ","h","e","r","e",":"," ">>
        no_events_2 ==
            <<"Y","o","u"," ","c","a","n"," ","c","h","e","c","k"," ","b","a","c","k"," ","s","o","o","n",
              " ","o","n"," ","o","u","r"," ","[","A","d","m","i","s","s","i","o","n","s"," ","p","a","g",
              "e","]","(">>
        no_events_3 ==
            <<")",".">>
    IN  LET label_open_days ==
                <<"O","p","e","n"," ","D","a","y","s">>
            label_admissions ==
                <<"A","d","m","i","s","s","i","o","n","s">>
            key_open_days ==
                <<"o","p","e","n","_","d","a","y","s">>
        IN  LET events == get_open_day_events(cache)
            IN  IF events # <<>>
                THEN LET ev == next_event(events)
                     IN  Returned(next_event_1 \o ev.event_name \o next_event_2 \o ev.date_human
                                  \o next_event_3 \o next_event_4 \o ev.booking_link,
                                  ev.booking_link, label_open_days, key_open_days,
                                  "open_days", FALSE, FALSE)
                ELSE Returned(no_events_1 \o no_events_2 \o OPEN_DAYS_URL \o no_events_3,
                              OPEN_DAYS_URL, label_admissions, key_open_days,
                              "open_days", FALSE, FALSE)

\* static_answer calling the enhancer whether or not a session_id was given
static_answer_always_voiced(tracker, question, qa, source, session_id, family_ctx) ==
    LET result(t, answer) ==
            [tracker |-> t,
             ret |-> IF answer = TypeError THEN Raised("TypeError", TRUE, FALSE)
                     ELSE Returned(answer, qa.url, qa.label, qa.key, source, TRUE, FALSE)]
        voiced(t) == result(t, enhance_for_voice(qa.answer, t, family_ctx))
    IN  voiced(add_interaction(tracker, question, qa.answer, qa.key))

\* find_best_answer, lines 520-531 and 547-558: the answer of static entry qa;
\* [tracker, ret], the tracker after the call and what is returned
static_answer(tracker, question, qa, source, session_id, family_ctx) ==
    LET result(t, answer) ==
            [tracker |-> t,
             ret |-> IF answer = TypeError THEN Raised("TypeError", TRUE, FALSE)
                     ELSE Returned(answer, qa.url, qa.label, qa.key, source,
                                   Truthy(session_id), FALSE)]
        voiced(t) ==
            result(t, IF Truthy(session_id) THEN enhance_for_voice(qa.answer, t, family_ctx)
                      ELSE qa.answer)
    IN  voiced(add_interaction(tracker, question, qa.answer, qa.key))

\* rag_answer recording the answer as worded by the enhancer
rag_answer_records_voiced(tracker, kb, idxs, question, language, session_id, family_ctx, chat, translate_ok) ==
    LET meta == kb[idxs[1]]
        returned(final, link) ==
            Returned(final, link[1], link[2], None, "rag", Truthy(session_id), TRUE)
        translated(enhanced) ==
            returned(IF language # lang_en /\ translate_ok
                     THEN translate(enhanced, language)
                     ELSE enhanced,
                     get_better_url_and_label(detect_topic_from_question(question), meta.url))
        result(t, enhanced) ==
            IF enhanced = TypeError
            THEN [recorded |-> TRUE, tracker |-> t, ret |-> Raised("TypeError", TRUE, TRUE)]
            ELSE [recorded |-> TRUE,
                  tracker |-> [t EXCEPT !.interactions[Len(t.interactions)].answer =
                                            Prefix(enhanced, ExcerptLen)],
                  ret |-> translated(enhanced)]
        voiced(improved, t) ==
            result(t, IF Truthy(session_id) THEN enhance_for_voice(improved, t, family_ctx)
                      ELSE improved)
        recorded(improved) ==
            voiced(improved, add_interaction(tracker, question, improved, topic_general))
    IN  IF ~chat.ok
        THEN [recorded |-> FALSE, tracker |-> tracker, ret |-> Raised("APIError", FALSE, TRUE)]
        ELSE recorded(ImprovedMemo(question, chat.content))

\* find_best_answer, lines 563-698: the answer generated from the passages idxs;
\* [recorded, tracker, ret]
rag_answer(tracker, kb, idxs, question, language, session_id, family_ctx, chat, translate_ok) ==
    LET meta == kb[idxs[1]]
        returned(final, link) ==
            Returned(final, link[1], link[2], None, "rag", Truthy(session_id), TRUE)
        translated(enhanced) ==
            returned(IF language # lang_en /\ translate_ok
                     THEN translate(enhanced, language)
                     ELSE enhanced,
                     get_better_url_and_label(detect_topic_from_question(question), meta.url))
        result(t, enhanced) ==
            IF enhanced = TypeError
            THEN [recorded |-> TRUE, tracker |-> t, ret |-> Raised("TypeError", TRUE, TRUE)]
            ELSE [recorded |-> TRUE, tracker |-> t, ret |-> translated(enhanced)]
        voiced(improved, t) ==
            result(t, IF Truthy(session_id) THEN enhance_for_voice(improved, t, family_ctx)
                      ELSE improved)
        recorded(improved) ==
            voiced(improved, add_interaction(tracker, question, improved, topic_general))
    IN  IF ~chat.ok
        THEN [recorded |-> FALSE, tracker |-> tracker, ret |-> Raised("APIError", FALSE, TRUE)]
        ELSE recorded(ImprovedMemo(question, chat.content))

\* no_match_return with the site link of the generated answers
no_match_return_with_link ==
    Returned(no_match_response, default_site_url, default_site_label, None, "none", FALSE, FALSE)

\* find_best_answer, line 707: what the terminal tier returns
no_match_return == Returned(no_match_response, None, None, None, "none", FALSE, FALSE)

\* find_best_answer.  memory is conversation_memory and kb the knowledge chunks
\* before the call; env holds what the collaborators answer during the call:
\*   cache        the open-days cache file, [readable, events]
\*   family_ctx   the child name fetch_family_context finds, or None
\*   q_vec        the embedding call, [ok, vec]
\*   chat         the chat completion call, [ok, content]
\*   translate_ok whether translate returns or raises
\* The value is the set of possible outcomes [memory, ret]: the registry after
\* the call and what the call handed back.
find_best_answer(memory, kb, question, language, session_id, family_id, env) ==
    LET q_lower    == Lower(Strip(question))
        registered == IF Truthy(session_id) /\ session_id \notin DOMAIN memory
                      THEN memory @@ (session_id :> ConversationTracker(session_id, family_id))
                      ELSE memory
        tracker    == IF Truthy(session_id) THEN registered[session_id]
                      ELSE ConversationTracker(anonymous_id, family_id)
        store(t)   == IF Truthy(session_id) THEN [registered EXCEPT ![session_id] = t]
                      ELSE registered
        family_ctx == IF Truthy(family_id) THEN env.family_ctx ELSE None
        stored(out) == [memory |-> store(out.tracker), ret |-> out.ret]
        static(n, source) ==
            stored(static_answer(tracker, question, STATIC_QAS[n], source,
                                 session_id, family_ctx))
        kept(out) ==
            [memory |-> IF out.recorded THEN store(out.tracker) ELSE registered,
             ret |-> out.ret]
        rag(idxs) ==
            kept(rag_answer(tracker, kb, idxs, question, language, session_id,
                            family_ctx, env.chat, env.translate_ok))
        no_match ==
            [memory |-> IF Truthy(session_id)
                        THEN store(add_interaction(tracker, question, no_match_response,
                                                   topic_unknown))
                        ELSE registered,
             ret |-> no_match_return]
        answered(tier, match) ==
            IF tier = "open_days"
            THEN {[memory |-> memory, ret |-> open_days_answer(env.cache)]}
            ELSE IF tier \in {"static", "fuzzy"}
            THEN {static(IF tier = "static" THEN match.exact ELSE match.best[2], tier)}
            ELSE IF ~env.q_vec.ok
            THEN {[memory |-> registered, ret |-> Raised("APIError", FALSE, FALSE)]}
            ELSE {IF Len(idxs) > 0 THEN rag(idxs) ELSE no_match :
                     idxs \in vector_search(kb, env.q_vec.vec, 10)}
    IN  answered(answering_tier(q_lower, language), MatchMemo(q_lower, language))

\* the collaborator answers that can make a difference to a request: the cache
\* when an intent keyword is present, the family context when an answer is
\* enhanced, the embedding when retrieval is reached, the chat completion when
\* passages are retrieved, the translation of a generated answer
Environments(kb, r) ==
    LET tier      == answering_tier(Lower(Strip(r.question)), r.language)
        Env(c, f, v, g, t) ==
            [cache |-> c, family_ctx |-> f, q_vec |-> v, chat |-> g, translate_ok |-> t]
        idle_cache == [readable |-> FALSE, events |-> <<>>]
        idle_vec   == [ok |-> FALSE, vec |-> <<>>]
        idle_chat  == [ok |-> FALSE, content |-> <<>>]
        contexts   == IF Truthy(r.family_id) /\ Truthy(r.session_id) THEN FamilyContexts ELSE {None}
    IN  IF tier = "open_days" THEN {Env(c, None, idle_vec, idle_chat, TRUE) : c \in OpenDaysCaches}
        ELSE IF tier # "retrieval" THEN {Env(idle_cache, f, idle_vec, idle_chat, TRUE) : f \in contexts}
        ELSE UNION {
               IF v.ok /\ vector_search(kb, v.vec, 10) # {<<>>}
               THEN {Env(idle_cache, None, v, idle_chat, TRUE)}
                    \cup {Env(idle_cache, f, v, g, t) :
                            f \in contexts,
                            g \in {g \in ChatCompletions : g.ok},
                            t \in IF r.language # lang_en THEN BOOLEAN ELSE {TRUE}}
               ELSE {Env(idle_cache, None, v, idle_chat, TRUE)}
               : v \in QueryEmbeddings}

-----------------------------------------------------------------------------
(* State and actions.                                                      *)

VARIABLES
    conversation_memory,   \* session id -> ConversationTracker
    kb_chunks,             \* the knowledge chunks loaded at start
    last,                  \* the last call served: its arguments, what the
                           \* collaborators answered and what it handed back
    threads                \* the requests served at the same time, each with
                           \* the statement it has reached

vars == <<conversation_memory, kb_chunks, last, threads>>

\* bound: interactions recorded over all trackers
MaxInteractions == 2

NoRequest == Request(None, None, None, None)

NoEnv ==
    [cache |-> [readable |-> FALSE, events |-> <<>>], family_ctx |-> None,
     q_vec |-> [ok |-> FALSE, vec |-> <<>>], chat |-> [ok |-> FALSE, content |-> <<>>],
     translate_ok |-> TRUE]

NoReturn == Raised("", FALSE, FALSE)

RECURSIVE SumLen(_, _)
SumLen(memory, ids) ==
    IF ids = {} THEN 0
    ELSE LET i == CHOOSE i \in ids : TRUE
         IN  Len(memory[i].interactions) + SumLen(memory, ids \ {i})

TotalInteractions(memory) == SumLen(memory, DOMAIN memory)

Init ==
    /\ conversation_memory = [s \in {} |-> None]
    /\ kb_chunks \in KnowledgeBases
    /\ last = [op |-> "start", request |-> NoRequest, env |-> NoEnv, ret |-> NoReturn]
    /\ threads = <<>>

\* the /ask route: one call of find_best_answer
ask(r, env) ==
    /\ TotalInteractions(conversation_memory) < MaxInteractions
    /\ \E out \in find_best_answer(conversation_memory, kb_chunks, r.question, r.language,
                                   r.session_id, r.family_id, env) :
          /\ conversation_memory' = out.memory
          /\ last' = [op |-> "ask", request |-> r, env |-> env, ret |-> out.ret]
    /\ UNCHANGED <<kb_chunks, threads>>

\* create_realtime_session storing a new tracker also for a registered id
create_realtime_session_anew(session_id, family_id, language) ==
    /\ conversation_memory' =
          LET registered == (session_id :> ConversationTracker(session_id, family_id))
                            @@ conversation_memory
          IN  [registered EXCEPT ![session_id].language = language]
    /\ last' = [op |-> "session",
                request |-> Request(None, language, session_id, family_id),
                env |-> NoEnv, ret |-> NoReturn]
    /\ UNCHANGED <<kb_chunks, threads>>

\* the /realtime/session route, lines 883-893: uuid4 draws the session id
create_realtime_session(session_id, family_id, language) ==
    /\ conversation_memory' =
          LET registered == IF session_id \notin DOMAIN conversation_memory
                            THEN conversation_memory
                                 @@ (session_id :> ConversationTracker(session_id, family_id))
                            ELSE conversation_memory
          IN  [registered EXCEPT ![session_id].language = language]
    /\ last' = [op |-> "session",
                request |-> Request(None, language, session_id, family_id),
                env |-> NoEnv, ret |-> NoReturn]
    /\ UNCHANGED <<kb_chunks, threads>>

Ask == \E r \in Requests : \E env \in Environments(kb_chunks, r) : ask(r, env)

CreateSession ==
    \E session_id \in {s2}, family_id \in {None}, language \in {lang_en, lang_fr} :
        create_realtime_session(session_id, family_id, language)

Next == Ask \/ CreateSession

Spec == Init /\ [][Next]_vars

-----------------------------------------------------------------------------
(* The tracker on its own: add_interaction called directly on the tracker  *)
(* of one session, with and without a topic, with short and long answers.  *)

\* bound: interactions recorded on the tracker
MaxRecorded == 3

\* bound: interactions of a conversation that is already under way
LongHistory == 7

\* an answer longer than the stored excerpt
long_answer == fees_info_head \o leadership_answer \o fees_info_tail

RecordedQuestions == {q_fee, q_worried}

RecordedAnswers == {no_match_response, long_answer}

\* no topic, the empty topic, and two topics
RecordedTopics == {None, <<>>, topic_general, QA_admissions.key}

InitTracker ==
    /\ conversation_memory = (s1 :> ConversationTracker(s1, None))
    /\ kb_chunks = <<>>
    /\ last = [op |-> "start", request |-> NoRequest, env |-> NoEnv, ret |-> NoReturn]
    /\ threads = <<>>

\* tracker.add_interaction(question, answer, topic) on the tracker of session_id
record_interaction(session_id, question, answer, topic) ==
    /\ LET n == Len(conversation_memory[session_id].interactions)
       IN  n < MaxRecorded \/ (n >= LongHistory /\ n < LongHistory + MaxRecorded)
    /\ conversation_memory' =
          [conversation_memory EXCEPT ![session_id] = add_interaction(@, question, answer, topic)]
    /\ last' = [op |-> "record",
                request |-> [session_id |-> session_id, question |-> question,
                             answer |-> answer, topic |-> topic],
                env |-> NoEnv, ret |-> NoReturn]
    /\ UNCHANGED <<kb_chunks, threads>>

RecordInteraction ==
    \E question \in RecordedQuestions, answer \in RecordedAnswers, topic \in RecordedTopics :
        record_interaction(s1, question, answer, topic)

NextTracker == RecordInteraction

SpecTracker == InitTracker /\ [][NextTracker]_vars

-----------------------------------------------------------------------------
(* Properties of find_best_answer, stated on the call served last.          *)

\* the call served last was a call of find_best_answer that returned
AskReturned == last.op = "ask" /\ last.ret.raised = ""

\* the question of the call served last, stripped and in lower case
AskedLower == Lower(Strip(last.request.question))

\* the question contains an intent keyword
HasKeyword(q) == \E k \in 1..Len(open_day_keywords) : Contains(q, open_day_keywords[k])

\* the entries of the language that have q among their key and variants
ExactEntries(q, language) ==
    {n \in 1..Len(STATIC_QAS) :
        /\ STATIC_QAS[n].language = language
        /\ \E v \in 1..Len(variants_of(STATIC_QAS[n])) : Lower(variants_of(STATIC_QAS[n])[v]) = q}

\* <<entry, similarity>> for every variant of every entry of the language
ScoresOf(q, language) ==
    UNION {{<<n, ratio(q, Lower(variants_of(STATIC_QAS[n])[v]))>> :
               v \in 1..Len(variants_of(STATIC_QAS[n]))} :
           n \in {n \in 1..Len(STATIC_QAS) : STATIC_QAS[n].language = language}}

\* the similarities of the questions asked, computed once
ScoreTable == [p \in MatchInputs |-> ScoresOf(p[1], p[2])]

\* the <<entry, similarity>> pairs of the highest similarity
BestScores(q, language) ==
    {s \in ScoreTable[<<q, language>>] :
        \A t \in ScoreTable[<<q, language>>] : ~FracGT(t[2], s[2])}

\* some variant is more than 0.8 similar to q
ScoresAbove(q, language) == \E s \in ScoreTable[<<q, language>>] : FracGT(s[2], <<8, 10>>)

\* the retriever has passages for the embedding of the call served last
HasPassages ==
    /\ last.env.q_vec.ok
    /\ Len(kb_chunks) > 0
    /\ Len(kb_chunks[1].embedding) = Len(last.env.q_vec.vec)

\* C1: a call of find_best_answer is answered by the first tier, in the order
\* open_days, static, fuzzy, rag, none, whose condition holds: an intent
\* keyword always gives open_days, also when the question is a static variant;
\* a variant of the language without a keyword always gives static; fuzzy only
\* without keyword and exact match; rag only when neither static tier
\* succeeds and passages are retrieved; none only when nothing is retrieved.
C1_TierOrder ==
    last.op = "ask" =>
        LET keyword == HasKeyword(AskedLower)
            exact   == ExactEntries(AskedLower, last.request.language) # {}
            fuzzy   == ScoresAbove(AskedLower, last.request.language)
            source  == last.ret.source
        IN  /\ keyword => source = "open_days"
            /\ (~keyword /\ exact) => source = "static"
            /\ (~keyword /\ ~exact /\ fuzzy) => source = "fuzzy"
            /\ source = "open_days" => keyword
            /\ source = "static" => (~keyword /\ exact)
            /\ source = "fuzzy" => (~keyword /\ ~exact /\ fuzzy)
            /\ source = "rag" => (~keyword /\ ~exact /\ ~fuzzy /\ HasPassages)
            /\ source = "none" => (~keyword /\ ~exact /\ ~fuzzy /\ last.env.q_vec.ok /\ ~HasPassages)

\* a question with an intent keyword that is also a static variant was answered by the shortcut
C1_Witness ==
    /\ AskReturned
    /\ HasKeyword(AskedLower)
    /\ ExactEntries(AskedLower, last.request.language) # {}
    /\ last.ret.source = "open_days"

\* C2: every call of find_best_answer with a session_id that returns, whichever
\* tier answers, leaves the tracker of the session with one interaction more
\* than it had before the call.
C2_RecordsOneInteraction ==
    [][(last'.op = "ask" /\ last'.ret.raised = "" /\ Truthy(last'.request.session_id)) =>
          LET sid    == last'.request.session_id
              before == IF sid \in DOMAIN conversation_memory
                        THEN Len(conversation_memory[sid].interactions) ELSE 0
          IN  /\ sid \in DOMAIN conversation_memory'
              /\ Len(conversation_memory'[sid].interactions) = before + 1]_vars

\* C3: a call of find_best_answer with a session_id that is not in the registry
\* registers a tracker for it, for every question, and when the call has
\* returned the tracker has one interaction.
C3_UnseenSessionRegistered ==
    [][(/\ last'.op = "ask" /\ last'.ret.raised = ""
        /\ Truthy(last'.request.session_id)
        /\ last'.request.session_id \notin DOMAIN conversation_memory) =>
          /\ last'.request.session_id \in DOMAIN conversation_memory'
          /\ Len(conversation_memory'[last'.request.session_id].interactions) = 1]_vars

\* the entries whose key is the question of the call served last, in the language of the call
KeyEntries ==
    {n \in 1..Len(STATIC_QAS) :
        /\ Lower(STATIC_QAS[n].key) = AskedLower
        /\ STATIC_QAS[n].language = last.request.language}

\* the family context the enhancer is given in the call served last
FamilyCtx == IF Truthy(last.request.family_id) THEN last.env.family_ctx ELSE None

\* base_answer as the enhancer words it on the tracker of the call served last
Voiced(base_answer) ==
    enhance_for_voice(base_answer, conversation_memory[last.request.session_id], FamilyCtx)

\* C4 as claimed: the key of an entry as the question, in the language of the
\* entry, returns the answer, url and label of the entry, its key as
\* matched_key and source static.
C4_KeyReturnsEntry ==
    last.op = "ask" =>
        \A n \in KeyEntries :
            /\ last.ret.raised = ""
            /\ last.ret.answer = STATIC_QAS[n].answer
            /\ last.ret.url = STATIC_QAS[n].url
            /\ last.ret.label = STATIC_QAS[n].label
            /\ last.ret.matched_key = STATIC_QAS[n].key
            /\ last.ret.source = "static"

\* C4: the key of an entry as the question (any letter case), in the language
\* of the entry, returns the url and label of the entry, its key as
\* matched_key and source static; the answer is the answer of the entry when
\* no session_id is given and that answer worded by the enhancer when one is;
\* and an answer of source static is that of the first entry in table order
\* that has the question among its key and variants.
C4_KeyReturnsEntryVoiced ==
    last.op = "ask" =>
        /\ \A n \in KeyEntries :
              /\ last.ret.raised = ""
              /\ last.ret.answer = IF Truthy(last.request.session_id)
                                   THEN Voiced(STATIC_QAS[n].answer)
                                   ELSE STATIC_QAS[n].answer
              /\ last.ret.url = STATIC_QAS[n].url
              /\ last.ret.label = STATIC_QAS[n].label
              /\ last.ret.matched_key = STATIC_QAS[n].key
              /\ last.ret.source = "static"
        /\ last.ret.source = "static" =>
              \E n \in ExactEntries(AskedLower, last.request.language) :
                 /\ \A m \in ExactEntries(AskedLower, last.request.language) : n <= m
                 /\ last.ret.matched_key = STATIC_QAS[n].key
                 /\ last.ret.url = STATIC_QAS[n].url
                 /\ last.ret.label = STATIC_QAS[n].label

\* the key of an entry was asked with a session_id and answered by that entry
C4_Witness ==
    /\ AskReturned
    /\ KeyEntries # {}
    /\ Truthy(last.request.session_id)
    /\ last.ret.source = "static"
    /\ \E n \in KeyEntries : last.ret.answer # STATIC_QAS[n].answer

\* C5: a question in another language than en whose translation into en is a
\* key or variant of a static entry is answered by the static tier.
C5_MatchesOnTranslation ==
    (AskReturned /\ last.request.language # lang_en) =>
        LET q_for_match == Lower(Strip(translate(last.request.question, lang_en)))
        IN  (~HasKeyword(AskedLower) /\ ExactEntries(q_for_match, lang_en) # {})
                => last.ret.source = "static"

\* C6: the fuzzy tier answers only when the highest similarity over all
\* variants of all entries of the language is strictly greater than 0.8, a
\* highest similarity of 0.8 or less falls through to retrieval, and the entry
\* returned is the first entry in table order that attains the highest
\* similarity.
C6_FuzzyThreshold ==
    AskReturned =>
        LET best == BestScores(AskedLower, last.request.language)
        IN  /\ last.ret.source = "fuzzy" =>
                  /\ \E s \in best : FracGT(s[2], <<8, 10>>)
                  /\ \E s \in best :
                        /\ \A t \in best : s[1] <= t[1]
                        /\ last.ret.matched_key = STATIC_QAS[s[1]].key
                        /\ last.ret.url = STATIC_QAS[s[1]].url
                        /\ last.ret.label = STATIC_QAS[s[1]].label
            /\ (\A s \in best : ~FracGT(s[2], <<8, 10>>)) =>
                  last.ret.source \in {"open_days", "rag", "none"}

\* the fuzzy tier answered a question that two entries match equally well
C6_Witness ==
    /\ AskReturned
    /\ last.ret.source = "fuzzy"
    /\ Cardinality({s[1] : s \in BestScores(AskedLower, last.request.language)}) >= 2

\* C7: when the intent shortcut fires, the answer names the feed event of the
\* least date_iso, the first in feed order among equal dates, with its
\* human-readable date, and the url is its booking link; when the feed is
\* empty or unreadable the answer is a fallback with the general open-events
\* url; the source is open_days and the call does not fail.
C7_NextEvent ==
    (last.op = "ask" /\ HasKeyword(AskedLower)) =>
        LET events == last.env.cache.events
        IN  /\ last.ret.raised = ""
            /\ last.ret.source = "open_days"
            /\ IF last.env.cache.readable /\ events # <<>>
               THEN \E n \in 1..Len(events) :
                       /\ \A m \in 1..Len(events) : ~DateLT(events[m].date_iso, events[n].date_iso)
                       /\ \A m \in 1..(n - 1) : events[m].date_iso # events[n].date_iso
                       /\ Contains(last.ret.answer, events[n].event_name)
                       /\ Contains(last.ret.answer, events[n].date_human)
                       /\ last.ret.url = events[n].booking_link
               ELSE /\ last.ret.url = OPEN_DAYS_URL
                    /\ Contains(last.ret.answer, OPEN_DAYS_URL)

\* the shortcut answered from a feed whose earliest event is not the first one
C7_Witness ==
    /\ AskReturned
    /\ last.ret.source = "open_days"
    /\ last.env.cache.events = feed_events
    /\ last.ret.url = feed_events[2].booking_link

\* C8: without intent keyword, exact match and fuzzy match, when the retriever
\* returns no passages (empty knowledge store or dimension mismatch), the call
\* returns the fixed no-match text, no url, label and matched_key, source none,
\* and the generative provider is not called.
C8_NoMatch ==
    (/\ last.op = "ask"
     /\ ~HasKeyword(AskedLower)
     /\ ExactEntries(AskedLower, last.request.language) = {}
     /\ ~ScoresAbove(AskedLower, last.request.language)
     /\ last.env.q_vec.ok
     /\ ~HasPassages) =>
        /\ last.ret.raised = ""
        /\ last.ret.answer = no_match_response
        /\ last.ret.url = None
        /\ last.ret.label = None
        /\ last.ret.matched_key = None
        /\ last.ret.source = "none"
        /\ ~last.ret.llm_called

\* a question reached the retriever, whose store does not fit the embedding
C8_Witness ==
    /\ AskReturned
    /\ last.ret.source = "none"
    /\ last.env.q_vec.ok
    /\ Len(kb_chunks) > 0
    /\ Len(kb_chunks[1].embedding) # Len(last.env.q_vec.vec)

\* the answer of the answering tier of the call served last, before the enhancer
RawAnswer ==
    IF last.ret.source \in {"static", "fuzzy"}
    THEN LET n == CHOOSE n \in 1..Len(STATIC_QAS) : STATIC_QAS[n].key = last.ret.matched_key
         IN  STATIC_QAS[n].answer
    ELSE IF last.ret.source = "rag"
    THEN improved_answer(last.request.question, last.env.chat.content)
    ELSE no_match_response

\* the text as find_best_answer returns it: a generated answer is translated
InLanguage(text) ==
    IF last.ret.source = "rag" /\ last.request.language # lang_en /\ last.env.translate_ok
    THEN translate(text, last.request.language)
    ELSE text

\* the answer of the intent shortcut as scripted
Scripted ==
    \/ Prefix(last.ret.answer, Len(next_event_1)) = next_event_1
    \/ Prefix(last.ret.answer, Len(no_events_1)) = no_events_1

\* C9 as claimed: the answer has passed through the enhancer exactly when a
\* session_id was given and the tier is not the intent shortcut.
C9_EnhancedUnlessShortcut ==
    AskReturned =>
        IF last.ret.source = "open_days" THEN Scripted /\ ~last.ret.enhanced
        ELSE IF Truthy(last.request.session_id)
        THEN last.ret.enhanced /\ last.ret.answer = InLanguage(Voiced(RawAnswer))
        ELSE ~last.ret.enhanced /\ last.ret.answer = InLanguage(RawAnswer)

\* C9: the answer has passed through the enhancer exactly when a session_id
\* was given and the tier is static, fuzzy or rag; without a session_id the
\* answer of the tier is returned as it is; the answers of the intent shortcut
\* and of the no-match tier are never enhanced.
C9_EnhancedStaticFuzzyRag ==
    AskReturned =>
        IF last.ret.source = "open_days" THEN Scripted /\ ~last.ret.enhanced
        ELSE IF Truthy(last.request.session_id) /\ last.ret.source # "none"
        THEN /\ last.ret.enhanced
             /\ last.ret.answer = InLanguage(Voiced(RawAnswer))
             /\ last.ret.answer # InLanguage(RawAnswer)
        ELSE ~last.ret.enhanced /\ last.ret.answer = InLanguage(RawAnswer)

\* a call with a session_id found no match and returned the fixed text as it is
C9_Witness ==
    /\ AskReturned
    /\ Truthy(last.request.session_id)
    /\ last.ret.source = "none"
    /\ last.ret.answer = no_match_response
    /\ Len(conversation_memory[last.request.session_id].interactions) >= 1

-----------------------------------------------------------------------------
(* Properties of the tracker.                                              *)

\* C10: add_interaction appends one interaction, whose answer is the first 200
\* characters of the answer given, and leaves the earlier interactions as they
\* were and in order; a topic given is added to topics_discussed and becomes
\* last_topic; without a topic, topics_discussed and last_topic stay as they are.
C10_AddInteraction ==
    [][last'.op = "record" =>
          LET before == conversation_memory[last'.request.session_id]
              after  == conversation_memory'[last'.request.session_id]
              answer == last'.request.answer
              topic  == last'.request.topic
              n      == Len(before.interactions)
          IN  /\ Len(after.interactions) = n + 1
              /\ SubSeq(after.interactions, 1, n) = before.interactions
              /\ after.interactions[n + 1].question = last'.request.question
              /\ after.interactions[n + 1].topic = topic
              /\ after.interactions[n + 1].answer =
                    [i \in 1..(IF Len(answer) < 200 THEN Len(answer) ELSE 200) |-> answer[i]]
              /\ IF topic # None /\ topic # <<>>
                 THEN /\ after.topics_discussed = before.topics_discussed \cup {topic}
                      /\ after.last_topic = topic
                 ELSE /\ after.topics_discussed = before.topics_discussed
                      /\ after.last_topic = before.last_topic]_vars

\* an answer longer than 200 characters was recorded without a topic after a topic had been given
C10_Witness ==
    /\ last.op = "record"
    /\ Len(last.request.answer) > 200
    /\ last.request.topic = None
    /\ LET t == conversation_memory[last.request.session_id]
       IN  /\ Len(t.interactions) >= 2
           /\ Len(t.interactions[Len(t.interactions)].answer) = 200
           /\ t.last_topic # None

-----------------------------------------------------------------------------
(* A session over a longer conversation: questions with and without        *)
(* keywords are recorded on its tracker, and the /conversation route reads *)
(* the summary and the handoff signal.                                     *)

\* no keyword; "how do I" as the only keyword; two high-intent keywords;
\* one high-intent keyword; one concern keyword
SessionQuestions ==
    {<<"H","e","l","l","o">>,
     <<"H","o","w"," ","d","o"," ","I"," ","e","n","r","o","l">>,
     <<"a","p","p","l","y"," ","f","o","r"," ","a"," ","s","c","h","o","l","a","r","s","h","i","p">>,
     q_fee,
     q_worried}

SessionTopics == {None, topic_general}

\* the tracker after n questions without keyword were answered by the terminal tier
RECURSIVE history(_, _)
history(session_id, n) ==
    IF n = 0 THEN ConversationTracker(session_id, None)
    ELSE add_interaction(history(session_id, n - 1), <<"H","e","l","l","o">>,
                         no_match_response, topic_unknown)

InitSession ==
    /\ \E n \in {0, LongHistory} : conversation_memory = (s1 :> history(s1, n))
    /\ kb_chunks = <<>>
    /\ last = [op |-> "start", request |-> NoRequest, env |-> NoEnv, ret |-> NoReturn]
    /\ threads = <<>>

\* the /conversation/<session_id> route
conversation_route(session_id) ==
    /\ last' = [op |-> "summary",
                request |-> [session_id |-> session_id],
                env |-> NoEnv,
                ret |-> IF session_id \notin DOMAIN conversation_memory
                        THEN [ok |-> FALSE]
                        ELSE [ok |-> TRUE,
                              summary |-> get_conversation_summary(conversation_memory[session_id]),
                              should_handoff |->
                                  should_offer_human_handoff(conversation_memory[session_id])]]
    /\ UNCHANGED <<conversation_memory, kb_chunks, threads>>

RecordInSession ==
    \E question \in SessionQuestions, topic \in SessionTopics :
        record_interaction(s1, question, no_match_response, topic)

ConversationRoute == \E session_id \in {s1, s2} : conversation_route(session_id)

\* response_enhancer.enhance_for_voice(base_answer, tracker, family_ctx) on the
\* tracker of session_id; the text returned, or TypeError when the call raises
enhance(session_id, base_answer, family_ctx) ==
    /\ last' = [op |-> "enhance",
                request |-> [session_id |-> session_id, base_answer |-> base_answer,
                             family_ctx |-> family_ctx],
                env |-> NoEnv,
                ret |-> enhance_for_voice(base_answer, conversation_memory[session_id],
                                          family_ctx)]
    /\ UNCHANGED <<conversation_memory, kb_chunks, threads>>

NextSession == RecordInSession \/ ConversationRoute

SpecSession == InitSession /\ [][NextSession]_vars

\* the tracker an interaction was just recorded on, before and after
RecordedBefore == conversation_memory[last'.request.session_id]

RecordedAfter == conversation_memory'[last'.request.session_id]

\* question, lower-cased, contains one of the words
Mentions(question, words) == \E w \in words : Contains(Lower(question), w)

\* C11: add_interaction adds exactly 1 to high_intent_signals when the
\* lower-cased question contains at least one of apply, visit, fee, scholarship,
\* "when can", "how do i", register, however many of them, and leaves the counter
\* as it is otherwise; a question whose only keyword is "how do i" adds 1.
C11_HighIntentCounted ==
    [][last'.op = "record" =>
          RecordedAfter.high_intent_signals =
              RecordedBefore.high_intent_signals
              + (IF Mentions(last'.request.question,
                             {<<"a","p","p","l","y">>, <<"v","i","s","i","t">>, <<"f","e","e">>,
                              <<"s","c","h","o","l","a","r","s","h","i","p">>,
                              <<"w","h","e","n"," ","c","a","n">>,
                              <<"h","o","w"," ","d","o"," ","i">>,
                              <<"r","e","g","i","s","t","e","r">>})
                 THEN 1 ELSE 0)]_vars

\* the concern keywords as the specification lists them
ConcernWords ==
    {<<"w","o","r","r","i","e","d">>, <<"c","o","n","c","e","r","n">>,
     <<"a","n","x","i","e","t","y">>, <<"d","i","f","f","i","c","u","l","t">>,
     <<"s","t","r","u","g","g","l","e">>, <<"h","e","l","p">>,
     <<"s","u","p","p","o","r","t">>, <<"n","e","r","v","o","u","s">>}

\* C12: add_interaction, when the lower-cased question contains a concern
\* keyword, appends the question to concerns and sets emotional_state to
\* concerned, whatever the topic; otherwise both stay as they are.  Two
\* questions in a row containing "worried" leave emotional_state concerned and
\* two more concerns than before.
C12_ConcernRecorded ==
    [][last'.op = "record" =>
          IF Mentions(last'.request.question, ConcernWords)
          THEN /\ RecordedAfter.concerns = Append(RecordedBefore.concerns, last'.request.question)
               /\ RecordedAfter.emotional_state = "concerned"
          ELSE /\ RecordedAfter.concerns = RecordedBefore.concerns
               /\ RecordedAfter.emotional_state = RecordedBefore.emotional_state]_vars

\* the first two questions of a session both contained "worried", under different topics
C12_Witness ==
    /\ last.op = "record"
    /\ LET t == conversation_memory[s1]
       IN  /\ Len(t.interactions) = 2
           /\ \A i \in 1..2 : Mentions(t.interactions[i].question, {<<"w","o","r","r","i","e","d">>})
           /\ t.interactions[1].topic # t.interactions[2].topic
           /\ t.emotional_state = "concerned"
           /\ Len(t.concerns) = 2

\* C13: a tracker whose emotional_state is concerned is still registered and
\* still concerned after every later operation.
C13_StaysConcerned ==
    [][\A s \in DOMAIN conversation_memory :
          conversation_memory[s].emotional_state = "concerned"
          => /\ s \in DOMAIN conversation_memory'
             /\ conversation_memory'[s].emotional_state = "concerned"]_vars

\* a question without concern keyword was recorded on a tracker that was concerned already
C13_Witness ==
    /\ last.op = "record"
    /\ ~Mentions(last.request.question, ConcernWords)
    /\ conversation_memory[s1].emotional_state = "concerned"
    /\ Len(conversation_memory[s1].concerns) >= 1

\* C14: should_offer_human_handoff is true exactly when high_intent_signals >= 3
\* or len(concerns) >= 2 or len(interactions) >= 10 or emotional_state is
\* concerned, and the call changes no field of the tracker.
C14_HandoffSignal ==
    [][last'.op = "summary" /\ last'.ret.ok =>
          LET t == conversation_memory[last'.request.session_id]
          IN  /\ last'.ret.should_handoff =
                    (\/ t.high_intent_signals >= 3
                     \/ Len(t.concerns) >= 2
                     \/ Len(t.interactions) >= 10
                     \/ t.emotional_state = "concerned")
              /\ conversation_memory' = conversation_memory]_vars

\* the handoff signal was read as true for the length of the conversation alone
C14_Witness ==
    /\ last.op = "summary"
    /\ last.ret.ok
    /\ last.ret.should_handoff
    /\ LET t == conversation_memory[last.request.session_id]
       IN  /\ Len(t.interactions) >= 10
           /\ t.high_intent_signals < 3
           /\ t.concerns = <<>>
           /\ t.emotional_state = "neutral"

\* bound: how far each of the three values is increased
MaxGrowth == 2

\* the tracker with high_intent_signals, len(concerns) and len(interactions)
\* larger by dh, dc and dn, and the same emotional_state
Grown(t, dh, dc, dn) ==
    [t EXCEPT !.high_intent_signals = @ + dh,
              !.concerns            = @ \o [i \in 1..dc |-> q_worried],
              !.interactions        = @ \o [i \in 1..dn |-> [question |-> q_fee,
                                                             answer   |-> no_match_response,
                                                             topic    |-> None]]]

\* C15: for a fixed emotional_state, should_offer_human_handoff true of a
\* tracker is true of every tracker whose high_intent_signals, len(concerns)
\* and len(interactions) are at least as large.
C15_HandoffMonotonic ==
    \A s \in DOMAIN conversation_memory :
        should_offer_human_handoff(conversation_memory[s])
        => \A dh \in 0..MaxGrowth, dc \in 0..MaxGrowth, dn \in 0..MaxGrowth :
              should_offer_human_handoff(Grown(conversation_memory[s], dh, dc, dn))

\* the signal is true of a tracker that is not concerned
C15_Witness ==
    /\ last.op = "record"
    /\ conversation_memory[s1].emotional_state = "neutral"
    /\ conversation_memory[s1].high_intent_signals >= 3
    /\ should_offer_human_handoff(conversation_memory[s1])

-----------------------------------------------------------------------------
(* Failures of the collaborators during find_best_answer.                  *)

\* retrieval is reached by the call served last
RetrievalReached ==
    last.op = "ask" /\ answering_tier(AskedLower, last.request.language) = "retrieval"

\* C16: every call of find_best_answer returns an answer text, whatever
\* collaborator fails: when the chat completion fails after passages were
\* retrieved the call returns the no-match answer, when the translation of the
\* generated answer fails the call returns the untranslated text, and no call
\* ends with an exception.
C16_FailuresDegrade ==
    last.op = "ask" =>
        /\ last.ret.raised = ""
        /\ (RetrievalReached /\ HasPassages /\ ~last.env.chat.ok) => last.ret = no_match_return
        /\ (last.ret.source = "rag" /\ ~last.env.translate_ok) =>
              LET mark == <<"[">> \o last.request.language \o <<"]", " ">>
              IN  Prefix(last.ret.answer, Len(mark)) # mark

\* C17: when the store is empty, or the query embedding has another dimension
\* than the store, the retrieval returns no passage and does not raise: the
\* call of find_best_answer that reached it ends with the no-match answer.
C17_EmptySearchNeverRaises ==
    (/\ RetrievalReached
     /\ \/ Len(kb_chunks) = 0
        \/ last.env.q_vec.ok /\ Len(kb_chunks[1].embedding) # Len(last.env.q_vec.vec))
    => last.ret = no_match_return

-----------------------------------------------------------------------------
(* Requests served at the same time.  app.run serves every request on a    *)
(* thread of its own and the module takes no lock, so the statements of    *)
(* two calls of find_best_answer for one session interleave.  The calls    *)
(* carry questions that no static tier answers and the store is empty, so  *)
(* each call resolves its tracker (lines 506-509), gets no passage and     *)
(* records the no-match answer (lines 704-705, add_interaction 159-180).   *)

\* two requests in flight
Threads == {"t1", "t2"}

\* the questions of the requests: those that reach the terminal tier
ConcurrentQuestions ==
    {q \in {q_fee, q_worried} : answering_tier(Lower(Strip(q)), lang_en) = "retrieval"}

\* the session is unseen or registered; each request is about to run line 506.
\* held is the tracker object the request works on when that object is no
\* longer the one in the registry, tmp the counter value it has loaded.
InitConcurrent ==
    /\ conversation_memory \in {[s \in {} |-> None], (s1 :> ConversationTracker(s1, None))}
    /\ kb_chunks = <<>>
    /\ last = [op |-> "start", request |-> NoRequest, env |-> NoEnv, ret |-> NoReturn]
    /\ threads \in [Threads -> {[pc |-> "check", question |-> q, held |-> <<>>, tmp |-> 0,
                                 created |-> FALSE] : q \in ConcurrentQuestions}]

\* one statement of the request served by thread t.  A list append, a set add
\* and an attribute store are single steps; `self.high_intent_signals += 1`
\* loads the attribute, adds, and stores the sum.
thread_step(t) ==
    LET self      == threads[t]
        tracker   == IF self.held = <<>> THEN conversation_memory[s1] ELSE self.held[1]
        high      == ContainsAny(Lower(self.question), high_intent_keywords)
        concerned == ContainsAny(Lower(self.question), concern_keywords)
        goto(pc)  == /\ threads' = [threads EXCEPT ![t].pc = pc]
                     /\ UNCHANGED conversation_memory
        update(new, pc) ==
            IF self.held = <<>>
            THEN /\ conversation_memory' = [conversation_memory EXCEPT ![s1] = new]
                 /\ threads' = [threads EXCEPT ![t].pc = pc]
            ELSE /\ threads' = [threads EXCEPT ![t].pc = pc, ![t].held = <<new>>]
                 /\ UNCHANGED conversation_memory
        working(u) == threads[u].pc \notin {"check", "create", "fetch"}
    IN  /\ \/ /\ self.pc = "check"                      \* line 507
              /\ goto(IF s1 \in DOMAIN conversation_memory THEN "fetch" ELSE "create")
           \/ /\ self.pc = "create"                     \* line 508
              /\ conversation_memory' =
                    (s1 :> ConversationTracker(s1, None)) @@ conversation_memory
              /\ threads' =
                    [u \in Threads |->
                        IF u = t THEN [self EXCEPT !.pc = "fetch", !.created = TRUE]
                        ELSE IF s1 \in DOMAIN conversation_memory /\ working(u)
                                /\ threads[u].held = <<>>
                        THEN [threads[u] EXCEPT !.held = <<conversation_memory[s1]>>]
                        ELSE threads[u]]
           \/ /\ self.pc = "fetch"                      \* line 509
              /\ goto("append")
           \/ /\ self.pc = "append"                     \* lines 160-165
              /\ update([tracker EXCEPT
                           !.interactions =
                               Append(@, [question |-> self.question,
                                          answer   |-> Prefix(no_match_response, ExcerptLen),
                                          topic    |-> topic_unknown])],
                        "topic")
           \/ /\ self.pc = "topic"                      \* lines 167-169
              /\ update([tracker EXCEPT !.topics_discussed = @ \cup {topic_unknown},
                                        !.last_topic = topic_unknown],
                        IF high THEN "load" ELSE IF concerned THEN "concern" ELSE "done")
           \/ /\ self.pc = "load"                       \* line 174, the load
              /\ threads' = [threads EXCEPT ![t].pc = "store",
                                            ![t].tmp = tracker.high_intent_signals]
              /\ UNCHANGED conversation_memory
           \/ /\ self.pc = "store"                      \* line 174, the store
              /\ update([tracker EXCEPT !.high_intent_signals = self.tmp + 1],
                        IF concerned THEN "concern" ELSE "done")
           \/ /\ self.pc = "concern"                    \* lines 179-180
              /\ update([tracker EXCEPT !.concerns = Append(@, self.question),
                                        !.emotional_state = "concerned"],
                        "done")
        /\ UNCHANGED <<kb_chunks, last>>

NextConcurrent == \E t \in Threads : thread_step(t)

SpecConcurrent == InitConcurrent /\ [][NextConcurrent]_vars

\* every request has returned
AllReturned == \A t \in Threads : threads[t].pc = "done"

\* the requests whose question holds one of the words
Asking(words) == {t \in Threads : ContainsAny(Lower(threads[t].question), words)}

\* C18: requests served at the same time for a session that is registered
\* lose no update of its tracker: once all have returned the tracker holds one
\* interaction per request, high_intent_signals is the number of requests
\* whose question holds a high-intent keyword, and concerns holds the question
\* of every request whose question holds a concern keyword.
C18_NoLostUpdate ==
    (AllReturned /\ \A t \in Threads : ~threads[t].created) =>
        /\ Len(conversation_memory[s1].interactions) = Cardinality(Threads)
        /\ conversation_memory[s1].high_intent_signals
              = Cardinality(Asking(high_intent_keywords))
        /\ Len(conversation_memory[s1].concerns) = Cardinality(Asking(concern_keywords))
        /\ \A t \in Asking(concern_keywords) :
              \E n \in 1..Len(conversation_memory[s1].concerns) :
                  conversation_memory[s1].concerns[n] = threads[t].question

\* C19: at most one tracker is created for a session id: when two requests
\* with the same unseen session id are served at the same time, both work on
\* the tracker of the registry, and once both have returned that tracker
\* holds both interactions.
C19_OneTrackerPerSession ==
    /\ Cardinality({t \in Threads : threads[t].created}) <= 1
    /\ (AllReturned /\ \E t \in Threads : threads[t].created) =>
          /\ \A t \in Threads : threads[t].held = <<>>
          /\ Len(conversation_memory[s1].interactions) = Cardinality(Threads)

-----------------------------------------------------------------------------
(* The fuzzy score on its own: the similarity of one question and one      *)
(* variant of the answer table.                                            *)

\* bound: length of the questions and variants scored
MaxScoreLen == 3

\* find_best_answer, lines 474 and 541: the score of a question against a
\* variant, as the fraction <<num, den>>
score(question, variant) == ratio(Lower(Strip(question)), Lower(variant))

\* a question and a variant over a lower-case letter, an upper-case letter and
\* the space; as in the answer table, no variant begins or ends with a space
InitScore ==
    LET strings == UNION {[1..n -> {"a", "B", " "}] : n \in 0..MaxScoreLen}
    IN  /\ conversation_memory = [s \in {} |-> None]
        /\ kb_chunks = <<>>
        /\ threads = <<>>
        /\ \E question \in strings, variant \in {v \in strings : Strip(v) = v} :
              last = [op |-> "start",
                      request |-> [question |-> question, variant |-> variant],
                      env |-> NoEnv, ret |-> NoReturn]

\* the question is scored against the variant
fuzzy_score ==
    /\ last.op = "start"
    /\ last' = [last EXCEPT !.op = "score",
                            !.ret = score(last.request.question, last.request.variant)]
    /\ UNCHANGED <<conversation_memory, kb_chunks, threads>>

NextScore == fuzzy_score

SpecScore == InitScore /\ [][NextScore]_vars

\* the score is a fraction between 0 and 1
InUnitInterval(f) == 0 <= f[1] /\ f[1] <= f[2] /\ f[2] > 0

-----------------------------------------------------------------------------
(* The answer kept in the interaction, the enhancer and the tracker.        *)

\* the answer kept in the interaction recorded last on the session's tracker
StoredExcerpt ==
    LET tracker == conversation_memory[last.request.session_id]
    IN  tracker.interactions[Len(tracker.interactions)].answer

\* the call served last was answered for a session by a tier that enhances
EnhancedForSession ==
    /\ AskReturned
    /\ Truthy(last.request.session_id)
    /\ last.ret.source \in {"static", "fuzzy", "rag"}

-----------------------------------------------------------------------------
(* The routes together: /ask, /realtime/session and /conversation.         *)

NextCore == Next \/ ConversationRoute

SpecCore == Init /\ [][NextCore]_vars

\* the fields of a tracker that add_interaction writes
Tracked(t) ==
    <<t.interactions, t.topics_discussed, t.concerns, t.last_topic, t.emotional_state,
      t.high_intent_signals>>

\* C22: add_interaction is the only operation that writes interactions,
\* topics_discussed, concerns, last_topic, emotional_state and
\* high_intent_signals of a registered tracker: a call of find_best_answer
\* changes them by exactly one add_interaction of its question or not at all
\* (the tiers and the enhancer write nothing), and the summary, the handoff
\* signal and a session start on a registered id leave them as they were.
C22_SoleWritePath ==
    [][\A s \in DOMAIN conversation_memory :
          /\ s \in DOMAIN conversation_memory'
          /\ \/ Tracked(conversation_memory'[s]) = Tracked(conversation_memory[s])
             \/ /\ last'.op = "ask"
                /\ last'.request.session_id = s
                /\ LET after == conversation_memory'[s]
                       new   == after.interactions[Len(after.interactions)]
                   IN  after = add_interaction(conversation_memory[s], last'.request.question,
                                               new.answer, new.topic)]_vars

\* a session was started on an id whose tracker holds an interaction
C22_Witness ==
    /\ last.op = "session"
    /\ last.request.session_id \in DOMAIN conversation_memory
    /\ Len(conversation_memory[last.request.session_id].interactions) >= 1
    /\ conversation_memory[last.request.session_id].language = last.request.language

-----------------------------------------------------------------------------
(* The enhancer on the tracker of a session.                               *)

\* bound: interactions recorded on a new tracker before the enhancer is called
MaxEnhanced == 5

\* add_interaction with and without a topic, of a question with a high-intent
\* keyword or with a concern keyword, and the enhancer on the tracker as it is then
NextEnhance ==
    \/ \E question \in {q_fee, q_worried}, topic \in SessionTopics :
          /\ LET n == Len(conversation_memory[s1].interactions)
             IN  n < MaxEnhanced \/ (n >= LongHistory /\ n < LongHistory + MaxRecorded)
          /\ conversation_memory' =
                [conversation_memory EXCEPT
                    ![s1] = add_interaction(@, question, no_match_response, topic)]
          /\ last' = [op |-> "record",
                      request |-> [session_id |-> s1, question |-> question,
                                   answer |-> no_match_response, topic |-> topic],
                      env |-> NoEnv, ret |-> NoReturn]
          /\ UNCHANGED <<kb_chunks, threads>>
    \/ \E family_ctx \in FamilyContexts : enhance(s1, no_match_response, family_ctx)

SpecEnhance == InitSession /\ [][NextEnhance]_vars

\* the tracker the enhancer was called on last
Enhanced == conversation_memory[last.request.session_id]

\* the acknowledgment of a tracker with n interactions whose last_topic is
\* not among its topics, in the given emotional state
AcknowledgmentApart(n, emotional_state) ==
    _add_acknowledgment([ConversationTracker(s1, None) EXCEPT
                            !.interactions    = [i \in 1..n |-> [question |-> q_fee,
                                                                  answer   |-> no_match_response,
                                                                  topic    |-> None]],
                            !.last_topic      = q_fee,
                            !.emotional_state = emotional_state])

\* the acknowledgment the priority of C23 gives a tracker: the greeting, the
\* "following on from" phrase, the empathetic phrase, the entry of the pool
PriorityAcknowledgment(context) ==
    IF Len(context.interactions) = 0
    THEN _add_acknowledgment(ConversationTracker(s1, None))
    ELSE IF context.last_topic \in context.topics_discussed
    THEN _add_acknowledgment(add_interaction(ConversationTracker(s1, None), q_fee,
                                             no_match_response, topic_general))
    ELSE AcknowledgmentApart(Len(context.interactions), context.emotional_state)

\* the text is worded with the acknowledgment, after the reassurance phrase
\* when the tracker is concerned
Acknowledges(text, context, ack) ==
    LET reassurance == reassurance_phrases[(Len(context.concerns) % Len(reassurance_phrases)) + 1]
        p == IF context.emotional_state = "concerned" THEN Len(reassurance) + 1 ELSE 0
    IN  /\ text # TypeError
        /\ SubSeq(text, p + 1, p + Len(ack) + 1) = ack \o <<" ">>

\* C23: the acknowledgment of the enhancer follows a strict priority: the
\* greeting for a tracker without interactions, else the "following on from"
\* phrase when last_topic is in topics_discussed, else the empathetic phrase
\* when emotional_state is concerned, else the entry of the pool of five at
\* the number of interactions modulo 5.
C23_AcknowledgmentPriority ==
    last.op = "enhance" => Acknowledges(last.ret, Enhanced, PriorityAcknowledgment(Enhanced))

\* C27: the enhancer returns a text, and does not raise, on every tracker that
\* calls of add_interaction with and without a topic lead to, also on a
\* tracker that holds interactions and has no last_topic.
C27_EnhanceReturnsText ==
    last.op = "enhance" => last.ret # TypeError

\* the offer of a call by the admissions team, as enhance_for_voice appends it
HandoffOffered(text) ==
    LET offer == <<" ","B","y"," ","t","h","e"," ","w","a","y",","," ","w","o","u","l","d"," ","y","o",
                   "u"," ","l","i","k","e"," ","m","e"," ","t","o"," ","a","r","r","a","n","g","e"," ",
                   "f","o","r"," ","s","o","m","e","o","n","e"," ","f","r","o","m"," ","o","u","r"," ",
                   "a","d","m","i","s","s","i","o","n","s"," ","t","e","a","m"," ","t","o"," ","c","a",
                   "l","l"," ","y","o","u"," ","d","i","r","e","c","t","l","y","?">>
    IN  /\ text # TypeError
        /\ Len(text) >= Len(offer)
        /\ SubSeq(text, Len(text) - Len(offer) + 1, Len(text)) = offer

\* C24: the enhancer appends the handoff offer exactly when
\* should_offer_human_handoff is true of the tracker and the number of its
\* interactions is a multiple of 5 when the enhancer runs; a tracker whose
\* signal is true between two multiples of 5 gets no offer.
C24_OfferAtMultiplesOfFive ==
    last.op = "enhance" =>
        (HandoffOffered(last.ret)
            <=> /\ should_offer_human_handoff(Enhanced)
                /\ Len(Enhanced.interactions) % 5 = 0)

-----------------------------------------------------------------------------
(* The retriever on its own: vector_search on a store of passages.         *)

\* bound: passages of the store
MaxPassages == 3

\* a store of up to MaxPassages passages, the embedding of a query and k
InitSearch ==
    LET passage(e) == [text |-> <<"d","a","y">>, url |-> None, embedding |-> e]
        vectors    == {<<0, 0>>, <<1, 0>>, <<0, 1>>, <<-1, 0>>}
    IN  /\ conversation_memory = [s \in {} |-> None]
        /\ kb_chunks \in UNION {[1..n -> {passage(e) : e \in vectors}] : n \in 0..MaxPassages}
        /\ threads = <<>>
        /\ \E q_vec \in {<<1, 0>>, <<1, 1>>, <<1, 0, 0>>}, k \in {1, 2, 10} :
              last = [op |-> "start", request |-> [q_vec |-> q_vec, k |-> k],
                      env |-> NoEnv, ret |-> NoReturn]

\* vector_search(query, k) returns idxs
search ==
    /\ last.op = "start"
    /\ \E idxs \in vector_search(kb_chunks, last.request.q_vec, last.request.k) :
          last' = [last EXCEPT !.op = "search", !.ret = idxs]
    /\ UNCHANGED <<conversation_memory, kb_chunks, threads>>

NextSearch == search

SpecSearch == InitSearch /\ [][NextSearch]_vars

\* the search served last ran on a store that is not empty, with an embedding
\* of the dimension of the store
Searched ==
    /\ last.op = "search"
    /\ Len(kb_chunks) > 0
    /\ Len(kb_chunks[1].embedding) = Len(last.request.q_vec)

\* C25: on a store of N > 0 passages and an embedding of its dimension,
\* vector_search returns min(k, N) distinct indices in non-increasing
\* similarity, and no passage left out is more similar than a passage
\* returned, for k < N and for k >= N.
C25_TopKSorted ==
    Searched =>
        LET idxs == last.ret
            N    == Len(kb_chunks)
            n    == IF last.request.k < N THEN last.request.k ELSE N
        IN  /\ Len(idxs) = n
            /\ \A a \in 1..n : idxs[a] \in 1..N
            /\ \A a, b \in 1..n : a # b => idxs[a] # idxs[b]
            /\ \A a \in 1..(n - 1) : SimLE(kb_chunks, last.request.q_vec, idxs[a + 1], idxs[a])
            /\ \A o \in (1..N) \ {idxs[a] : a \in 1..n} :
                  \A a \in 1..n : SimLE(kb_chunks, last.request.q_vec, o, idxs[a])

\* a partial selection left out a passage as similar as one it returned
C25_Witness ==
    /\ Searched
    /\ last.request.k = 2
    /\ Len(kb_chunks) = 3
    /\ Len(last.ret) = 2
    /\ \E o \in (1..3) \ {last.ret[1], last.ret[2]} :
          /\ SimLE(kb_chunks, last.request.q_vec, last.ret[2], o)
          /\ ~SimLE(kb_chunks, last.request.q_vec, last.ret[1], last.ret[2])

-----------------------------------------------------------------------------
(* The fees template of the generated answers.                             *)

\* the call served last was answered from a generated text on fees
FeesAnswered ==
    /\ AskReturned
    /\ last.ret.source = "rag"
    /\ detect_topic_from_question(last.request.question) = topic_fees

\* the block of fee conditions is part of the answer
HasDisclaimer(answer) ==
    /\ Contains(answer, <<"I","M","P","O","R","T","A","N","T"," ","I","N","F","O","R","M","A","T",
                          "I","O","N",":">>)
    /\ Contains(answer, <<"A","l","l"," ","f","e","e","s"," ","e","x","c","l","u","d","e"," ",
                          "V","A","T">>)

\* C26 as claimed: a generated answer on fees carries the block of fee
\* conditions only when the generated text holds a currency amount, and
\* carries none when it holds no amount.
C26_DisclaimerOnlyWithAmounts ==
    FeesAnswered => (HasDisclaimer(last.ret.answer) <=> has_amounts(last.env.chat.content))

\* C26: a generated answer on fees always carries the block of fee
\* conditions; a currency amount in the generated text selects the heading,
\* "SCHOOL FEES 2025-26" with an amount and "FEES & FINANCIAL INFORMATION"
\* without.
C26_DisclaimerOnEveryFeesAnswer ==
    FeesAnswered =>
        /\ HasDisclaimer(last.ret.answer)
        /\ Contains(last.ret.answer,
                    IF has_amounts(last.env.chat.content)
                    THEN <<"S","C","H","O","O","L"," ","F","E","E","S"," ","2","0","2","5","-",
                           "2","6">>
                    ELSE <<"F","E","E","S"," ","&"," ","F","I","N","A","N","C","I","A","L"," ",
                           "I","N","F","O","R","M","A","T","I","O","N">>)
        /\ ~(/\ Contains(last.ret.answer, <<"S","C","H","O","O","L"," ","F","E","E","S">>)
             /\ Contains(last.ret.answer, <<"F","E","E","S"," ","&">>))

\* a fees answer generated from a text without amounts carries the block
C26_Witness ==
    /\ FeesAnswered
    /\ ~has_amounts(last.env.chat.content)
    /\ HasDisclaimer(last.ret.answer)

-----------------------------------------------------------------------------
(* The enhancer as find_best_answer calls it.                               *)

\* C28: in a session that is driven through find_best_answer, last_topic is
\* unset or a member of topics_discussed, the tracker holds at least one
\* interaction whenever the enhancer runs, and every enhanced answer begins
\* with the "following on from" acknowledgment: the greeting, the empathetic
\* phrase and the pool are never produced, and the enhancer never raises.
C28_ResolveFollowsOn ==
    /\ \A s \in DOMAIN conversation_memory :
          \/ conversation_memory[s].last_topic = None
          \/ conversation_memory[s].last_topic \in conversation_memory[s].topics_discussed
    /\ last.op = "ask" => last.ret.raised # "TypeError"
    /\ (AskReturned /\ last.ret.enhanced) =>
          /\ Len(conversation_memory[last.request.session_id].interactions) >= 1
          /\ Acknowledges(last.ret.answer, conversation_memory[last.request.session_id],
                          <<"F","o","l","l","o","w","i","n","g"," ","o","n"," ","f","r","o","m",
                            " ","w","h","a","t"," ","w","e"," ","d","i","s","c","u","s","s","e",
                            "d",".",".",".">>)

\* the first answer of a session was enhanced
C28_Witness ==
    /\ AskReturned
    /\ last.ret.enhanced
    /\ Len(conversation_memory[last.request.session_id].interactions) = 1
    /\ last.ret.source \in {"static", "fuzzy", "rag"}

-----------------------------------------------------------------------------
(* What add_interaction keeps true of a tracker.                           *)

\* C29: in every state of a tracker, emotional_state is concerned exactly
\* when concerns is not empty, and high_intent_signals and len(concerns) are
\* at most len(interactions); so should_offer_human_handoff is what it is
\* without its test of len(concerns) >= 2, and once it is true it is true
\* after every later add_interaction.
C29_TrackerConsistent ==
    /\ [](\A s \in DOMAIN conversation_memory :
             LET t == conversation_memory[s]
             IN  /\ (t.emotional_state = "concerned") <=> (t.concerns # <<>>)
                 /\ t.high_intent_signals <= Len(t.interactions)
                 /\ Len(t.concerns) <= Len(t.interactions)
                 /\ should_offer_human_handoff(t)
                       <=> (\/ t.high_intent_signals >= 3
                            \/ Len(t.interactions) >= 10
                            \/ t.emotional_state = "concerned"))
    /\ [][\A s \in DOMAIN conversation_memory :
             should_offer_human_handoff(conversation_memory[s])
             => should_offer_human_handoff(conversation_memory'[s])]_vars

\* a question without keyword was recorded on a tracker with two concerns
C29_Witness ==
    /\ last.op = "record"
    /\ ~Mentions(last.request.question, ConcernWords)
    /\ Len(conversation_memory[s1].concerns) >= 2
    /\ conversation_memory[s1].high_intent_signals < 3
    /\ Len(conversation_memory[s1].interactions) < 10
    /\ should_offer_human_handoff(conversation_memory[s1])

-----------------------------------------------------------------------------
(* The registry across sessions.                                           *)

\* the later tracker is the earlier one, possibly with more interactions
SameTracker(old, new) ==
    /\ new.session_id = old.session_id
    /\ new.family_id = old.family_id
    /\ Len(new.interactions) >= Len(old.interactions)
    /\ SubSeq(new.interactions, 1, Len(old.interactions)) = old.interactions

\* C30: sessions are isolated and the registry only grows: a call of
\* find_best_answer with session id A changes no field of the tracker of
\* another id B, a call without session id leaves the registry and its
\* trackers as they were, and an id that is registered stays mapped to the
\* same tracker, with the family_id of its creation, whatever runs next.
C30_SessionsIsolated ==
    [][/\ \A s \in DOMAIN conversation_memory :
             /\ s \in DOMAIN conversation_memory'
             /\ SameTracker(conversation_memory[s], conversation_memory'[s])
       /\ last'.op = "ask" =>
             IF last'.request.session_id = None
             THEN conversation_memory' = conversation_memory
             ELSE \A s \in DOMAIN conversation_memory \ {last'.request.session_id} :
                     conversation_memory'[s] = conversation_memory[s]]_vars

=============================================================================
